---------------------------- MODULE Spec2Model ----------------------------
(***************************************************************************)
(* Streaming tick pipeline, alert engine and mean-reversion backtest of    *)
(* the quantitative analytics dashboard.                                   *)
(*                                                                         *)
(*   Spec         DataProcessor life cycle: start/stop, the WebSocket      *)
(*                client thread, the periodic workers, the tick buffers    *)
(*   SpecBuf      the same actions, one start and more ticks               *)
(*   SpecClient   start/stop against the WebSocket client thread alone     *)
(*   SpecAlert    AlertManager: rules, check_alerts, history               *)
(*   SpecBacktest MeanReversionBacktest.run, one loop iteration per step   *)
(*   SpecBacktestPath  the same loop along a given z-score series          *)
(*   SpecResample DataSampler.resample_ticks on a snapshot, stored twice   *)
(*   SpecStore    DataStorage.insert_bars and get_bars                     *)
(*   SpecTicks    DataStorage.insert_tick and get_ticks                    *)
(*   SpecEngine   AlertManager called from several threads, with the lock  *)
(*                and the trigger callback; SpecEngineFair adds fairness   *)
(*   SpecWorkers  the periodic workers with failing steps in a cycle       *)
(*   SpecIngest   BinanceWebSocketClient._on_message on any message        *)
(*   SpecKalman   AnalyticsEngine.compute_kalman_hedge_ratio               *)
(*   SpecZScore   AnalyticsEngine.compute_zscore on two series             *)
(*   SpecFewObs   the length tests of the analytics and of the backtest    *)
(*   SpecSandbox  AlertManager with any Python expression as condition    *)
(*   SpecAdmin    add_rule, remove_rule, update_rule, get_active_alerts    *)
(*   SpecRestart  start, stop and start again with the workers' cycles     *)
(*   SpecRebar    the resample cycles of a timeframe, buffer overflowing   *)
(*   SpecTimeframe  resample_ticks, insert_bars, get_bars and the name of  *)
(*                the timeframe                                            *)
(***************************************************************************)
EXTENDS Integers, Sequences, FiniteSets, TLC

(***************************************************************************)
(* Bounds of the model.                                                    *)
(***************************************************************************)
\* deque(maxlen=10000) in the source, scaled down
BufCap == 2
\* number of start() calls that create threads (Spec)
MaxStarts == 2
\* number of trade events the ingestion source delivers (SpecBuf)
MaxTicks == 3
\* number of trade events delivered in the life-cycle specification (Spec)
LifeTicks == 1
\* "Keep only last 100 alerts" in the source, scaled down
HistCap == 2
\* number of check_alerts calls
MaxChecks == 2
\* number of administrative calls: add_rule, remove_rule, update_rule and,
\* in SpecEngine, get_rules and get_active_alerts
MaxAdmin == 2
\* longest spread series
MaxLen == 7
\* largest number of rows of a tick DataFrame given to the resampler
MaxRows == 3
\* number of insert_bars calls
MaxInserts == 2
\* number of exceptions raised inside the periodic workers
MaxFails == 2
\* number of messages the WebSocket delivers (SpecIngest)
MaxEvents == 2
\* rows of the two price series given to the Kalman filter
MaxObs == 3
\* length of the series given to compute_zscore (SpecZScore)
MaxSeries == 5
\* length of the series of the length tests; the ADF test asks for 10
MaxPoints == 11

\* current_equity = 100000
StartCapital == 100000
\* "Assume 100 units"
UnitSize == 100

Symbols == <<"btcusdt", "ethusdt">>
SymbolSet == {Symbols[i] : i \in 1..Len(Symbols)}
\* the stream may carry a symbol the pipeline holds no buffer for
StreamSymbols == SymbolSet \cup {"xrpusdt"}
Timeframes == {"1s", "1m"}
Gens == 1..MaxStarts
\* timestamps the exchange may stamp on a trade, in any order
Times == {1, 2}
TickSet == [timestamp : Times, symbol : StreamSymbols, price : {100}, size : {1}]

VARIABLES
  \* DataProcessor
  running, gen, tick_buffers, plock, db_ticks,
  wpc, widx, all_ticks, apc,
  \* BinanceWebSocketClient, one per start()
  cl_running, cl_ws, cpc, cl_tick,
  \* budgets and history variables
  startsLeft, ticksLeft, pushed, log_warn, misuse,
  stopSeen, cl_stopped,
  \* AlertManager
  rules, active_alerts, alock, chk, now, cb_calls, all_events, checksLeft, adminLeft,
  \* MeanReversionBacktest.run
  bt_pc, bt_spread, bt_window, bt_entry, bt_exit, bt_zscore, bt_i, bt_position,
  bt_trades, bt_equity_curve, bt_current_equity, bt_entries, bt_result,
  \* DataSampler.resample_ticks and DataStorage
  rs_pc, rs_ticks, rs_tf, rs_bars, db_bars, db_ids, q_result, storeLeft,
  \* the callback of the AlertManager and the threads calling its methods
  callback, call, cycle,
  \* the error log of the periodic workers and the alert worker's loop
  wk_log, a_idx, a_out, failsLeft,
  \* events received by the client
  cl_seen,
  \* AnalyticsEngine: one call of compute_kalman_hedge_ratio
  kf,
  \* AnalyticsEngine: compute_zscore on a series and on a changed copy
  zs,
  \* one call of an analytics function or of the backtest on short input
  an

pipeVars == <<running, gen, tick_buffers, plock, db_ticks, wpc, widx, all_ticks,
              apc, cl_running, cl_ws, cpc, cl_tick, startsLeft, ticksLeft,
              pushed, log_warn, misuse, stopSeen, cl_stopped>>

alertVars == <<rules, active_alerts, alock, chk, now, cb_calls, all_events,
               checksLeft, adminLeft>>

btVars == <<bt_pc, bt_spread, bt_window, bt_entry, bt_exit, bt_zscore, bt_i,
            bt_position, bt_trades, bt_equity_curve, bt_current_equity, bt_entries,
            bt_result>>

storeVars == <<rs_pc, rs_ticks, rs_tf, rs_bars, db_bars, db_ids, q_result, storeLeft>>

lockVars == <<callback, call, cycle>>

wkVars == <<wk_log, a_idx, a_out, failsLeft>>

anVars == <<kf, zs, an>>

fnVars == <<cl_seen, anVars>>

vars == <<pipeVars, alertVars, btVars, storeVars, lockVars, wkVars, fnVars>>

(***************************************************************************)
(* Sequence helpers.                                                       *)
(***************************************************************************)
LastN(s, n) == IF Len(s) <= n THEN s ELSE SubSeq(s, Len(s) - n + 1, Len(s))

RECURSIVE ConcatBuffers(_, _)
ConcatBuffers(bufs, k) ==
  IF k = 0 THEN <<>> ELSE ConcatBuffers(bufs, k - 1) \o bufs[Symbols[k]]

(***************************************************************************)
(* Exact arithmetic for ratios: a number is a fraction n/d in lowest       *)
(* terms with d > 0                                                        *)
(***************************************************************************)
RECURSIVE Gcd(_, _)
Gcd(a, b) == IF b = 0 THEN a ELSE Gcd(b, a % b)
Abs(a) == IF a < 0 THEN 0 - a ELSE a
Rat(n, d) ==
  LET g == Gcd(Abs(n), Abs(d))
      sg == IF d < 0 THEN 0 - 1 ELSE 1
  IN [n |-> sg * (n \div g), d |-> sg * (d \div g)]
RInt(k) == [n |-> k, d |-> 1]
RAdd(a, b) == Rat(a.n * b.d + b.n * a.d, a.d * b.d)
RSub(a, b) == Rat(a.n * b.d - b.n * a.d, a.d * b.d)
RMul(a, b) == Rat(a.n * b.n, a.d * b.d)
RDiv(a, b) == Rat(a.n * b.d, a.d * b.n)
RLe(a, b) == a.n * b.d <= b.n * a.d
RLt(a, b) == a.n * b.d < b.n * a.d
RAbs(a) == [n |-> Abs(a.n), d |-> a.d]

(***************************************************************************)
(* DataProcessor                                                           *)
(***************************************************************************)
Free == <<>>
WorkerIds == {<<g, tf>> : g \in Gens, tf \in Timeframes}

\* deque(maxlen=BufCap).append
DequeAppendDropNewest(buf, t) == IF Len(buf) >= BufCap THEN buf ELSE Append(buf, t)
DequeAppend(buf, t) ==
  IF Len(buf) >= BufCap THEN Append(Tail(buf), t) ELSE Append(buf, t)

InitPipe ==
  /\ running = FALSE
  /\ gen = 0
  /\ tick_buffers = [s \in SymbolSet |-> <<>>]
  /\ plock = Free
  /\ db_ticks = <<>>
  /\ wpc = [w \in WorkerIds |-> "idle"]
  /\ widx = [w \in WorkerIds |-> 0]
  /\ all_ticks = [w \in WorkerIds |-> <<>>]
  /\ apc = [g \in Gens |-> "idle"]
  /\ cl_running = [g \in Gens |-> FALSE]
  /\ cl_ws = [g \in Gens |-> "none"]
  /\ cpc = [g \in Gens |-> "idle"]
  /\ cl_tick = [g \in Gens |-> <<>>]
  /\ pushed = [s \in SymbolSet |-> <<>>]
  /\ log_warn = FALSE
  /\ misuse = "none"
  /\ stopSeen = [g \in Gens |-> FALSE]
  /\ cl_stopped = [g \in Gens |-> FALSE]

\* DataProcessor.start on a pipeline that is not running
Start ==
  /\ ~running
  /\ startsLeft > 0
  /\ startsLeft' = startsLeft - 1
  /\ running' = TRUE
  /\ gen' = gen + 1
  /\ cl_running' = [cl_running EXCEPT ![gen + 1] = TRUE]
  /\ cpc' = [cpc EXCEPT ![gen + 1] = "connect"]
  /\ wpc' = [w \in WorkerIds |-> IF w[1] = gen + 1 THEN "loop" ELSE wpc[w]]
  /\ apc' = [apc EXCEPT ![gen + 1] = "loop"]
  /\ UNCHANGED <<tick_buffers, plock, db_ticks, widx, all_ticks, cl_ws, cl_tick,
                 ticksLeft, pushed, log_warn, misuse, stopSeen, cl_stopped>>
  /\ UNCHANGED <<alertVars, btVars, storeVars, lockVars, wkVars, fnVars>>

\* DataProcessor.start on a running pipeline: a warning, nothing else.
\* misuse is the last call that was made in the wrong state, if any:
\* start while running or stop while not running.
StartRunning ==
  /\ running
  /\ log_warn' = TRUE
  /\ misuse' = "start_running"
  /\ UNCHANGED <<running, gen, tick_buffers, plock, db_ticks, wpc, widx,
                 all_ticks, apc, cl_running, cl_ws, cpc, cl_tick, startsLeft,
                 ticksLeft, pushed, stopSeen, cl_stopped>>
  /\ UNCHANGED <<alertVars, btVars, storeVars, lockVars, wkVars, fnVars>>

\* the worker threads of generation g that have not left their loop
LiveGen(g) ==
  \/ \E tf \in Timeframes : wpc[<<g, tf>>] \notin {"idle", "exited"}
  \/ apc[g] \notin {"idle", "exited"}

\* BinanceWebSocketClient.stop, called by DataProcessor.stop
ClientStop(g) ==
  /\ cl_running' = [cl_running EXCEPT ![g] = FALSE]
  /\ cl_ws' = [cl_ws EXCEPT ![g] = IF @ = "none" THEN "none" ELSE "closed"]
  /\ cl_stopped' = [cl_stopped EXCEPT ![g] = TRUE]

\* DataProcessor.stop
Stop ==
  /\ running' = FALSE
  /\ IF gen > 0
       THEN ClientStop(gen)
       ELSE UNCHANGED <<cl_running, cl_ws, cl_stopped>>
  /\ stopSeen' = [g \in Gens |-> stopSeen[g] \/ (running /\ LiveGen(g))]
  /\ misuse' = IF running THEN misuse ELSE "stop_idle"
  /\ UNCHANGED <<gen, tick_buffers, plock, db_ticks, wpc, widx, all_ticks, apc,
                 cpc, cl_tick, startsLeft, ticksLeft, pushed, log_warn>>
  /\ UNCHANGED <<alertVars, btVars, storeVars, lockVars, wkVars, fnVars>>

(***************************************************************************)
(* DataProcessor._resample_worker, thread (g, tf)                          *)
(***************************************************************************)
WUnchanged ==
  UNCHANGED <<running, gen, db_ticks, apc, cl_running, cl_ws, cpc, cl_tick,
              startsLeft, ticksLeft, pushed, log_warn, misuse, stopSeen, cl_stopped,
              alertVars, btVars, storeVars, lockVars, wkVars, fnVars>>

\* while self.running:
WLoop(w) ==
  /\ wpc[w] = "loop"
  /\ wpc' = [wpc EXCEPT ![w] = IF running THEN "sleep" ELSE "exited"]
  /\ UNCHANGED <<tick_buffers, plock, widx, all_ticks>>
  /\ WUnchanged

\* time.sleep(interval); if not self.running: break
WWake(w) ==
  /\ wpc[w] = "sleep"
  /\ wpc' = [wpc EXCEPT ![w] = IF running THEN "lock" ELSE "exited"]
  /\ UNCHANGED <<tick_buffers, plock, widx, all_ticks>>
  /\ WUnchanged

\* with self._lock: all_ticks = []
WLock(w) ==
  /\ wpc[w] = "lock"
  /\ plock = Free
  /\ plock' = w
  /\ wpc' = [wpc EXCEPT ![w] = "copy"]
  /\ widx' = [widx EXCEPT ![w] = 0]
  /\ all_ticks' = [all_ticks EXCEPT ![w] = <<>>]
  /\ UNCHANGED tick_buffers
  /\ WUnchanged

\* for symbol, buffer in self.tick_buffers.items(): all_ticks.extend(list(buffer))
WCopy(w) ==
  /\ wpc[w] = "copy"
  /\ widx[w] < Len(Symbols)
  /\ widx' = [widx EXCEPT ![w] = @ + 1]
  /\ all_ticks' = [all_ticks EXCEPT ![w] = @ \o tick_buffers[Symbols[widx[w] + 1]]]
  /\ UNCHANGED <<tick_buffers, plock, wpc>>
  /\ WUnchanged

\* if not all_ticks: continue; ticks_df = pd.DataFrame(all_ticks); lock released
WRelease(w) ==
  /\ wpc[w] = "copy"
  /\ widx[w] = Len(Symbols)
  /\ plock' = Free
  /\ wpc' = [wpc EXCEPT ![w] = IF all_ticks[w] = <<>> THEN "loop" ELSE "resample"]
  /\ UNCHANGED <<tick_buffers, all_ticks>>
  /\ widx' = [widx EXCEPT ![w] = 0]
  /\ WUnchanged

\* bars = DataSampler.resample_ticks(...); self.storage.insert_bars(...);
\* an exception is caught and logged
WResample(w) ==
  /\ wpc[w] = "resample"
  /\ wpc' = [wpc EXCEPT ![w] = "loop"]
  /\ all_ticks' = [all_ticks EXCEPT ![w] = <<>>]
  /\ widx' = [widx EXCEPT ![w] = 0]
  /\ UNCHANGED <<tick_buffers, plock>>
  /\ WUnchanged

(***************************************************************************)
(* DataProcessor._alert_check_worker, thread g                             *)
(***************************************************************************)
AUnchanged ==
  UNCHANGED <<running, gen, tick_buffers, plock, db_ticks, wpc, widx, all_ticks,
              cl_running, cl_ws, cpc, cl_tick, startsLeft, ticksLeft, pushed,
              log_warn, misuse, stopSeen, cl_stopped, alertVars, btVars, storeVars, lockVars, wkVars, fnVars>>

\* while self.running:
ALoop(g) ==
  /\ apc[g] = "loop"
  /\ apc' = [apc EXCEPT ![g] = IF running THEN "sleep" ELSE "exited"]
  /\ AUnchanged

\* time.sleep(ALERT_CHECK_INTERVAL); if not self.running ...: continue
AWake(g) ==
  /\ apc[g] = "sleep"
  /\ apc' = [apc EXCEPT ![g] = IF running THEN "check" ELSE "loop"]
  /\ AUnchanged

\* for symbol in self.symbols: metrics, check_alerts; exceptions caught
ACheck(g) ==
  /\ apc[g] = "check"
  /\ apc' = [apc EXCEPT ![g] = "loop"]
  /\ AUnchanged

(***************************************************************************)
(* BinanceWebSocketClient, the thread of client g                          *)
(***************************************************************************)
CUnchanged ==
  UNCHANGED <<running, gen, plock, wpc, widx, all_ticks, apc, cl_running,
              startsLeft, log_warn, misuse, stopSeen, cl_stopped, alertVars, btVars, storeVars, lockVars, wkVars, fnVars>>

\* _connect: self.ws = websocket.WebSocketApp(...)
CConnect(g) ==
  /\ cpc[g] = "connect"
  /\ cpc' = [cpc EXCEPT ![g] = "run"]
  /\ cl_ws' = [cl_ws EXCEPT ![g] = "created"]
  /\ UNCHANGED <<tick_buffers, db_ticks, cl_tick, ticksLeft, pushed>>
  /\ CUnchanged

\* self.ws.run_forever(): the connection opens, unless close() came first
COpen(g) ==
  /\ cpc[g] = "run"
  /\ IF cl_ws[g] = "created"
       THEN /\ cl_ws' = [cl_ws EXCEPT ![g] = "open"]
            /\ cpc' = [cpc EXCEPT ![g] = "open"]
       ELSE /\ cpc' = [cpc EXCEPT ![g] = "closed"]
            /\ UNCHANGED cl_ws
  /\ UNCHANGED <<tick_buffers, db_ticks, cl_tick, ticksLeft, pushed>>
  /\ CUnchanged

\* _on_message -> DataProcessor._tick_callback: self.storage.insert_tick(...)
\* ok = FALSE: the insert raises, _on_message catches and logs it
CMessage(g, t, ok) ==
  /\ cpc[g] = "open"
  /\ cl_ws[g] = "open"
  /\ ticksLeft > 0
  /\ ticksLeft' = ticksLeft - 1
  /\ IF ok
       THEN /\ db_ticks' = Append(db_ticks, t)
            /\ cl_tick' = [cl_tick EXCEPT ![g] = t]
            /\ cpc' = [cpc EXCEPT ![g] = "push"]
       ELSE UNCHANGED <<db_ticks, cl_tick, cpc>>
  /\ UNCHANGED <<tick_buffers, cl_ws, pushed>>
  /\ CUnchanged

\* _tick_callback: with self._lock: if symbol in self.tick_buffers: append
PushGuardNoLock == TRUE
PushGuard == plock = Free

\* if symbol in self.tick_buffers:
InBuffersFirstOnly(symbol) == symbol = Symbols[1]
InBuffers(symbol) == symbol \in SymbolSet

TickPush(g) ==
  /\ cpc[g] = "push"
  /\ PushGuard
  /\ LET t == cl_tick[g] IN
       IF InBuffers(t.symbol)
         THEN /\ tick_buffers' = [tick_buffers EXCEPT
                                    ![t.symbol] = DequeAppend(@, t)]
              /\ pushed' = [pushed EXCEPT ![t.symbol] = Append(@, t)]
         ELSE UNCHANGED <<tick_buffers, pushed>>
  /\ cl_tick' = [cl_tick EXCEPT ![g] = <<>>]
  /\ cpc' = [cpc EXCEPT ![g] = "open"]
  /\ UNCHANGED <<db_ticks, cl_ws, ticksLeft>>
  /\ CUnchanged

\* the connection ends: the server drops it, or close() was called
CDisconnect(g) ==
  /\ cpc[g] = "open"
  /\ cl_ws' = [cl_ws EXCEPT ![g] = "closed"]
  /\ cpc' = [cpc EXCEPT ![g] = "closed"]
  /\ UNCHANGED <<tick_buffers, db_ticks, cl_tick, ticksLeft, pushed>>
  /\ CUnchanged

\* _on_close: if self.running: time.sleep(self.reconnect_interval) ...
COnClose(g) ==
  /\ cpc[g] = "closed"
  /\ cpc' = [cpc EXCEPT ![g] = IF cl_running[g] THEN "backoff" ELSE "done"]
  /\ UNCHANGED <<tick_buffers, db_ticks, cl_ws, cl_tick, ticksLeft, pushed>>
  /\ CUnchanged

\* ... self._connect()
CReconnect(g) ==
  /\ cpc[g] = "backoff"
  /\ cpc' = [cpc EXCEPT ![g] = "connect"]
  /\ UNCHANGED <<tick_buffers, db_ticks, cl_ws, cl_tick, ticksLeft, pushed>>
  /\ CUnchanged

(***************************************************************************)
(* AlertRule and AlertManager                                              *)
(*                                                                         *)
(* rules is the dict self.rules in insertion order; key is the dict key.   *)
(* last_triggered = 0 stands for None; now is the clock datetime.now()     *)
(* reads, advanced at every read.  A context is a function from field      *)
(* names to values.                                                        *)
(***************************************************************************)
RuleIds == {"r1", "r2"}
Conditions == {"zscore > 2", "zscore < -2", "zscore >"}
RuleSymbols == {"none", "ethusdt"}
Contexts ==
  [symbol : SymbolSet, zscore : {-3, 3}]
    \cup {[zscore |-> 3]} \cup {[symbol |-> "ethusdt"]}

ContextGet(ctx, k, default) == IF k \in DOMAIN ctx THEN ctx[k] ELSE default

\* eval(self.condition, {"__builtins__": {}}, context): "error" is a raised
\* exception (NameError for a field the context lacks, SyntaxError)
EvalCondition(cond, ctx) ==
  CASE cond = "zscore > 2" ->
         IF "zscore" \in DOMAIN ctx
           THEN (IF ctx["zscore"] > 2 THEN "true" ELSE "false")
           ELSE "error"
    [] cond = "zscore < -2" ->
         IF "zscore" \in DOMAIN ctx
           THEN (IF ctx["zscore"] < -2 THEN "true" ELSE "false")
           ELSE "error"
    [] OTHER -> "error"

\* AlertRule.evaluate: "raise" would be an exception leaving evaluate
RuleEvaluateNoCatch(rule, ctx) ==
  IF ~rule.enabled THEN "false"
  ELSE IF rule.symbol # "none" /\ ContextGet(ctx, "symbol", "none") # rule.symbol
    THEN "false"
  ELSE IF EvalCondition(rule.condition, ctx) = "error" THEN "raise"
  ELSE EvalCondition(rule.condition, ctx)

RuleEvaluateIgnoreEnabled(rule, ctx) ==
  IF rule.symbol # "none" /\ ContextGet(ctx, "symbol", "none") # rule.symbol
    THEN "false"
  ELSE IF EvalCondition(rule.condition, ctx) = "error" THEN "false"
  ELSE EvalCondition(rule.condition, ctx)

RuleEvaluate(rule, ctx) ==
  IF ~rule.enabled THEN "false"
  ELSE IF rule.symbol # "none" /\ ContextGet(ctx, "symbol", "none") # rule.symbol
    THEN "false"
  ELSE IF EvalCondition(rule.condition, ctx) = "error" THEN "false"
  ELSE EvalCondition(rule.condition, ctx)

\* AlertRule.trigger
RuleTriggerNoCount(rule, t) == [rule EXCEPT !.last_triggered = t]
RuleTrigger(rule, t) ==
  [rule EXCEPT !.last_triggered = t, !.trigger_count = @ + 1]

\* alert_info
AlertInfo(rule, ctx, t) ==
  [rule_id |-> rule.rule_id, name |-> rule.name,
   symbol |-> ContextGet(ctx, "symbol", "N/A"), timestamp |-> t, context |-> ctx]

\* self.active_alerts.append(alert_info); if len(...) > 100: pop(0)
RecordAlertDropNewest(hist, ev) == IF Len(hist) >= HistCap THEN hist ELSE Append(hist, ev)
RecordAlert(hist, ev) ==
  IF Len(Append(hist, ev)) > HistCap THEN Tail(Append(hist, ev)) ELSE Append(hist, ev)

ChkIdle == [pc |-> "idle", ctx |-> <<>>, idx |-> 0, raised |-> FALSE]

InitAlert ==
  /\ rules = <<>>
  /\ active_alerts = <<>>
  /\ alock = "free"
  /\ chk = ChkIdle
  /\ now = 1
  /\ cb_calls = <<>>
  /\ all_events = <<>>
  /\ checksLeft = MaxChecks
  /\ adminLeft = MaxAdmin

KeyIndexNone(id) == {}
KeyIndex(id) == {i \in 1..Len(rules) : rules[i].key = id}

NewRule(id, cond, sym, en) ==
  [key |-> id, rule_id |-> id, name |-> "alert", condition |-> cond, symbol |-> sym,
   enabled |-> en, last_triggered |-> 0, trigger_count |-> 0]

AdminUnchanged ==
  UNCHANGED <<active_alerts, alock, chk, now, cb_calls, all_events, checksLeft,
              pipeVars, btVars, storeVars, lockVars, wkVars, fnVars>>

\* AlertManager.add_rule(AlertRule(id, name, cond, sym, en))
AddRule(id, cond, sym, en) ==
  /\ alock = "free"
  /\ adminLeft > 0
  /\ adminLeft' = adminLeft - 1
  /\ rules' = IF KeyIndex(id) = {}
                THEN Append(rules, NewRule(id, cond, sym, en))
                ELSE [i \in 1..Len(rules) |->
                        IF rules[i].key = id THEN NewRule(id, cond, sym, en) ELSE rules[i]]
  /\ AdminUnchanged

\* AlertManager.remove_rule(id)
RemoveRule(id) ==
  /\ alock = "free"
  /\ adminLeft > 0
  /\ adminLeft' = adminLeft - 1
  /\ rules' = SelectSeq(rules, LAMBDA r : r.key # id)
  /\ AdminUnchanged

\* the data attributes AlertRule.__init__ sets
RuleAttributes ==
  {"rule_id", "name", "condition", "symbol", "enabled", "last_triggered", "trigger_count"}
\* hasattr(rule, key) for the names update_rule is called with here
HasAttr(rule, name) == name \in RuleAttributes

\* def update_rule(self, rule_id, **kwargs): a keyword named rule_id is
\* bound to the parameter a second time, and the call raises TypeError
\* before the body is entered
KeywordAny(field) == TRUE
Keyword(field) == field # "rule_id"

\* AlertManager.update_rule(id, field=value): for key, value in
\* kwargs.items(): if hasattr(rule, key): setattr(rule, key, value)
UpdateRule(id, field, value) ==
  /\ alock = "free"
  /\ adminLeft > 0
  /\ adminLeft' = adminLeft - 1
  /\ rules' = [i \in 1..Len(rules) |->
                 IF Keyword(field) /\ rules[i].key = id /\ HasAttr(rules[i], field)
                   THEN [rules[i] EXCEPT ![field] = value]
                   ELSE rules[i]]
  /\ AdminUnchanged

\* AlertManager.get_rules
GetRules == rules

\* seq[start:] of Python for any integer start
SliceFrom(seq, start) ==
  LET from == IF start < 0
                THEN (IF Len(seq) + start < 0 THEN 0 ELSE Len(seq) + start)
                ELSE (IF start > Len(seq) THEN Len(seq) ELSE start)
  IN SubSeq(seq, from + 1, Len(seq))

\* AlertManager.get_active_alerts(limit): return self.active_alerts[-limit:]
GetActiveAlerts(limit) == SliceFrom(active_alerts, 0 - limit)

\* AlertManager.check_alerts(ctx): with self._lock:
CheckBegin(ctx) ==
  /\ alock = "free"
  /\ chk.pc = "idle"
  /\ checksLeft > 0
  /\ checksLeft' = checksLeft - 1
  /\ alock' = "check"
  /\ chk' = [pc |-> "rules", ctx |-> ctx, idx |-> 1, raised |-> FALSE]
  /\ UNCHANGED <<rules, active_alerts, now, cb_calls, all_events, adminLeft,
                 pipeVars, btVars, storeVars, lockVars, wkVars, fnVars>>

\* one iteration of: for rule in self.rules.values():
CheckRule ==
  /\ chk.pc = "rules"
  /\ chk.idx <= Len(rules)
  /\ LET r == rules[chk.idx]
         res == RuleEvaluate(r, chk.ctx)
         fired == RuleTrigger(r, now)
     IN CASE res = "true" ->
               /\ rules' = [rules EXCEPT ![chk.idx] = fired]
               /\ active_alerts' = RecordAlert(active_alerts, AlertInfo(fired, chk.ctx, now + 1))
               /\ all_events' = Append(all_events, AlertInfo(fired, chk.ctx, now + 1))
               /\ cb_calls' = Append(cb_calls, <<fired, chk.ctx>>)
               /\ now' = now + 2
               /\ chk' = [chk EXCEPT !.idx = @ + 1]
               /\ UNCHANGED alock
          [] res = "false" ->
               /\ chk' = [chk EXCEPT !.idx = @ + 1]
               /\ UNCHANGED <<rules, active_alerts, all_events, cb_calls, now, alock>>
          [] OTHER ->
               \* an exception leaves the with block and check_alerts
               /\ chk' = [ChkIdle EXCEPT !.raised = TRUE]
               /\ alock' = "free"
               /\ UNCHANGED <<rules, active_alerts, all_events, cb_calls, now>>
  /\ UNCHANGED <<checksLeft, adminLeft, pipeVars, btVars, storeVars, lockVars, wkVars, fnVars>>

\* the loop is over: the lock is released and check_alerts returns
CheckEnd ==
  /\ chk.pc = "rules"
  /\ chk.idx > Len(rules)
  /\ alock' = "free"
  /\ chk' = ChkIdle
  /\ UNCHANGED <<rules, active_alerts, now, cb_calls, all_events, checksLeft,
                 adminLeft, pipeVars, btVars, storeVars, lockVars, wkVars, fnVars>>

NextAlert ==
  \/ \E id \in RuleIds, c \in Conditions, sy \in RuleSymbols, en \in BOOLEAN :
       AddRule(id, c, sy, en)
  \/ \E id \in RuleIds : RemoveRule(id)
  \/ \E id \in RuleIds, en \in BOOLEAN : UpdateRule(id, "enabled", en)
  \/ \E id \in RuleIds, c \in Conditions : UpdateRule(id, "condition", c)
  \/ \E id \in RuleIds, sy \in RuleSymbols : UpdateRule(id, "symbol", sy)
  \/ \E ctx \in Contexts : CheckBegin(ctx)
  \/ CheckRule
  \/ CheckEnd

\* the limits get_active_alerts is called with
Limits == 0..(HistCap + 1)

\* a call of get_active_alerts(limit) under the lock; q_result is what it
\* returned
QueryAlerts(limit) ==
  /\ alock = "free"
  /\ q_result' = [kind |-> "alerts", limit |-> limit, rows |-> GetActiveAlerts(limit)]
  /\ UNCHANGED <<rs_pc, rs_ticks, rs_tf, rs_bars, db_bars, db_ids, storeLeft>>
  /\ UNCHANGED <<alertVars, pipeVars, btVars, lockVars, wkVars, fnVars>>

\* the rule administration with every kind of update, the alert cycle and
\* the query of the history
NextAdmin ==
  \/ \E id \in RuleIds, en \in BOOLEAN : AddRule(id, "zscore > 2", "none", en)
  \/ \E id \in RuleIds : RemoveRule(id)
  \/ \E id \in RuleIds, en \in BOOLEAN : UpdateRule(id, "enabled", en)
  \/ \E id \in RuleIds, v \in RuleIds : UpdateRule(id, "rule_id", v)
  \/ \E id \in RuleIds : UpdateRule(id, "threshold", 5)
  \/ \E ctx \in Contexts : CheckBegin(ctx)
  \/ CheckRule
  \/ CheckEnd
  \/ \E limit \in Limits : QueryAlerts(limit)

(***************************************************************************)
(* AlertRule.evaluate with any Python expression as the condition.         *)
(* eval(condition, {"__builtins__": {}}, context) runs the expression with *)
(* the caller's context dict as its local namespace: an assignment         *)
(* expression writes into that dict, and attribute access reaches from any *)
(* object to its class, object.__subclasses__(), a loaded module and its   *)
(* __builtins__, that is to __import__ and every object of the process.    *)
(* M stands for the expression that finds the AlertManager that way.       *)
(***************************************************************************)
Walrus == "(zscore := 0) == 0"
ReadHistory == "M.active_alerts.__len__() > 0"
ClearHistory == "M.active_alerts.clear() is None"
PyConditions == {"zscore > 2", Walrus, ReadHistory, ClearHistory}

\* eval(self.condition, {"__builtins__": {}}, context) in a process whose
\* manager holds the history hist: the value, the context dict and the
\* history after the evaluation
PyEval(cond, ctx, hist) ==
  CASE cond = Walrus ->
         [value |-> "true",
          context |-> [k \in DOMAIN ctx \cup {"zscore"} |->
                         IF k = "zscore" THEN 0 ELSE ctx[k]],
          history |-> hist]
    [] cond = ReadHistory ->
         [value |-> IF Len(hist) > 0 THEN "true" ELSE "false",
          context |-> ctx, history |-> hist]
    [] cond = ClearHistory ->
         [value |-> "true", context |-> ctx, history |-> <<>>]
    [] OTHER ->
         [value |-> EvalCondition(cond, ctx), context |-> ctx, history |-> hist]

\* AlertRule.evaluate(context) with its effects
Evaluate(rule, ctx, hist) ==
  IF ~rule.enabled THEN [value |-> "false", context |-> ctx, history |-> hist]
  ELSE IF rule.symbol # "none" /\ ContextGet(ctx, "symbol", "none") # rule.symbol
    THEN [value |-> "false", context |-> ctx, history |-> hist]
  ELSE IF PyEval(rule.condition, ctx, hist).value = "error"
    THEN [PyEval(rule.condition, ctx, hist) EXCEPT !.value = "false"]
  ELSE PyEval(rule.condition, ctx, hist)

\* one iteration of: for rule in self.rules.values(): with the effects of
\* the evaluation on the context and on the history
CheckRuleEval ==
  /\ chk.pc = "rules"
  /\ chk.idx <= Len(rules)
  /\ LET r == rules[chk.idx]
         ev == Evaluate(r, chk.ctx, active_alerts)
         fired == RuleTrigger(r, now)
     IN IF ev.value = "true"
          THEN /\ rules' = [rules EXCEPT ![chk.idx] = fired]
               /\ active_alerts' = RecordAlert(ev.history, AlertInfo(fired, ev.context, now + 1))
               /\ all_events' = Append(all_events, AlertInfo(fired, ev.context, now + 1))
               /\ cb_calls' = Append(cb_calls, <<fired, ev.context>>)
               /\ now' = now + 2
               /\ chk' = [chk EXCEPT !.idx = @ + 1, !.ctx = ev.context]
          ELSE /\ chk' = [chk EXCEPT !.idx = @ + 1, !.ctx = ev.context]
               /\ active_alerts' = ev.history
               /\ UNCHANGED <<rules, all_events, cb_calls, now>>
  /\ UNCHANGED <<alock, checksLeft, adminLeft, pipeVars, btVars, storeVars, lockVars, wkVars, fnVars>>

NextSandbox ==
  \/ \E id \in RuleIds, c \in PyConditions : AddRule(id, c, "none", TRUE)
  \/ \E ctx \in Contexts : CheckBegin(ctx)
  \/ CheckRuleEval
  \/ CheckEnd

(***************************************************************************)
(* AlertManager as its callers see it: every method runs its body in       *)
(* `with self._lock`, a threading.Lock, which is not reentrant.  A thread   *)
(* that calls a method waits for the lock, takes it when it is free, runs  *)
(* the body and releases it.  call[t] is the method call thread t is in;   *)
(* the thread "check" is the one that runs check_alerts, and the calls it  *)
(* makes are those of the trigger callback.  callback is what the callback *)
(* given to the constructor does: nothing ("none" is no callback), return, *)
(* raise, or call the named method of the same manager.  cycle records the *)
(* rules that were present when check_alerts took the lock and the rules   *)
(* it has evaluated since.                                                 *)
(***************************************************************************)
Callers == {"ui", "api"}
Threads == Callers \cup {"check"}
EngineOps == {"add_rule", "remove_rule", "update_rule", "get_rules", "get_active_alerts"}
CallbackKinds == {"none", "return", "raise"} \cup EngineOps

CallIdle == [pc |-> "idle", op |-> "none", id |-> "none", en |-> FALSE, seen |-> <<>>]
CycleIdle == [snap |-> <<>>, evald |-> <<>>]

IdleCalls ==
  /\ callback = "none"
  /\ call = [t \in Threads |-> CallIdle]
  /\ cycle = CycleIdle

\* threading.Lock: acquire() succeeds when no thread holds the lock,
\* whichever thread asks
LockFreeAlways(l) == TRUE
LockFree(l) == l = "free"

RuleKeys(rs) == [i \in 1..Len(rs) |-> rs[i].key]

\* the rule mapping after the body of add_rule, remove_rule or update_rule
RulesAfter(c, rs) ==
  CASE c.op = "add_rule" ->
         IF \E i \in 1..Len(rs) : rs[i].key = c.id
           THEN [i \in 1..Len(rs) |->
                   IF rs[i].key = c.id THEN NewRule(c.id, "zscore > 2", "none", c.en)
                   ELSE rs[i]]
           ELSE Append(rs, NewRule(c.id, "zscore > 2", "none", c.en))
    [] c.op = "remove_rule" -> SelectSeq(rs, LAMBDA r : r.key # c.id)
    [] c.op = "update_rule" ->
         [i \in 1..Len(rs) |->
            IF rs[i].key = c.id THEN [rs[i] EXCEPT !.enabled = c.en] ELSE rs[i]]
    [] OTHER -> rs

\* what get_rules and get_active_alerts(limit=1) return
SeenBy(c, rs, hist) ==
  CASE c.op = "get_rules" -> rs
    [] c.op = "get_active_alerts" -> LastN(hist, 1)
    [] OTHER -> <<>>

EngUnchanged == UNCHANGED <<pipeVars, btVars, storeVars, wkVars, fnVars>>

\* thread t calls a method of the manager and reaches `with self._lock`
Call(t, op, id, en) ==
  /\ call[t].pc = "idle"
  /\ adminLeft > 0
  /\ adminLeft' = adminLeft - 1
  /\ call' = [call EXCEPT ![t] = [pc |-> "waiting", op |-> op, id |-> id, en |-> en,
                                  seen |-> <<>>]]
  /\ UNCHANGED <<rules, active_alerts, alock, chk, now, cb_calls, all_events, checksLeft,
                 callback, cycle>>
  /\ EngUnchanged

\* self._lock.__enter__ returns in thread t
Acquire(t) ==
  /\ call[t].pc = "waiting"
  /\ LockFree(alock)
  /\ alock' = t
  /\ call' = [call EXCEPT ![t].pc = "in"]
  /\ UNCHANGED <<rules, active_alerts, chk, now, cb_calls, all_events, checksLeft,
                 adminLeft, callback, cycle>>
  /\ EngUnchanged

\* the body of the method under the lock, the release and the return
Body(t) ==
  /\ call[t].pc = "in"
  /\ rules' = RulesAfter(call[t], rules)
  /\ call' = [call EXCEPT ![t] = [CallIdle EXCEPT
                                    !.pc = IF t = "check" THEN "done" ELSE "idle",
                                    !.seen = SeenBy(call[t], rules, active_alerts)]]
  /\ alock' = "free"
  /\ UNCHANGED <<active_alerts, chk, now, cb_calls, all_events, checksLeft, adminLeft,
                 callback, cycle>>
  /\ EngUnchanged

\* AlertManager.check_alerts(ctx): with self._lock:
EngCheckBegin(ctx) ==
  /\ chk.pc = "idle"
  /\ checksLeft > 0
  /\ LockFree(alock)
  /\ checksLeft' = checksLeft - 1
  /\ alock' = "check"
  /\ chk' = [pc |-> "rules", ctx |-> ctx, idx |-> 1, raised |-> FALSE]
  /\ cycle' = [snap |-> RuleKeys(rules), evald |-> <<>>]
  /\ UNCHANGED <<rules, active_alerts, now, cb_calls, all_events, adminLeft, callback, call>>
  /\ EngUnchanged

\* one iteration of the loop up to the call of the callback
EngCheckRule ==
  /\ chk.pc = "rules"
  /\ chk.idx <= Len(rules)
  /\ cycle' = [cycle EXCEPT !.evald = Append(@, rules[chk.idx].key)]
  /\ LET r == rules[chk.idx]
         res == RuleEvaluate(r, chk.ctx)
         fired == RuleTrigger(r, now)
     IN CASE res = "true" ->
               /\ rules' = [rules EXCEPT ![chk.idx] = fired]
               /\ active_alerts' = RecordAlert(active_alerts, AlertInfo(fired, chk.ctx, now + 1))
               /\ all_events' = Append(all_events, AlertInfo(fired, chk.ctx, now + 1))
               /\ now' = now + 2
               /\ IF callback = "none"
                    THEN /\ chk' = [chk EXCEPT !.idx = @ + 1]
                         /\ UNCHANGED cb_calls
                    ELSE /\ chk' = [chk EXCEPT !.pc = "callback"]
                         /\ cb_calls' = Append(cb_calls, <<fired, chk.ctx>>)
               /\ UNCHANGED alock
          [] res = "false" ->
               /\ chk' = [chk EXCEPT !.idx = @ + 1]
               /\ UNCHANGED <<rules, active_alerts, all_events, cb_calls, now, alock>>
          [] OTHER ->
               /\ chk' = [ChkIdle EXCEPT !.raised = TRUE]
               /\ alock' = "free"
               /\ UNCHANGED <<rules, active_alerts, all_events, cb_calls, now>>
  /\ UNCHANGED <<checksLeft, adminLeft, callback, call>>
  /\ EngUnchanged

\* self.callback(rule, context) calls a method of the manager
CbEnter ==
  /\ chk.pc = "callback"
  /\ callback \in EngineOps
  /\ call["check"].pc = "idle"
  /\ call' = [call EXCEPT !["check"] = [pc |-> "waiting", op |-> callback,
                                        id |-> rules[chk.idx].key, en |-> FALSE,
                                        seen |-> <<>>]]
  /\ UNCHANGED <<alertVars, callback, cycle>>
  /\ EngUnchanged

\* try: self.callback(rule, context) / except Exception as e:
\* logger.error(...): how the call of a callback of this kind ends for
\* check_alerts
CallbackEndsUncaught(kind) == IF kind = "raise" THEN "raised" ELSE "returned"
CallbackEnds(kind) == IF kind = "raise" THEN "caught" ELSE "returned"

\* the callback returns, or raises into the except clause, and the loop
\* goes on; an exception that no clause caught would leave check_alerts
\* through the with statement, which releases the lock
CbFinish ==
  /\ chk.pc = "callback"
  /\ callback \in {"return", "raise"} \/ call["check"].pc = "done"
  /\ IF CallbackEnds(callback) = "raised"
       THEN /\ chk' = [ChkIdle EXCEPT !.raised = TRUE]
            /\ alock' = "free"
       ELSE /\ chk' = [chk EXCEPT !.pc = "rules", !.idx = @ + 1]
            /\ UNCHANGED alock
  /\ call' = [call EXCEPT !["check"] = CallIdle]
  /\ UNCHANGED <<rules, active_alerts, now, cb_calls, all_events, checksLeft,
                 adminLeft, callback, cycle>>
  /\ EngUnchanged

\* the loop is over: the lock is released and check_alerts returns
EngCheckEnd ==
  /\ chk.pc = "rules"
  /\ chk.idx > Len(rules)
  /\ alock' = "free"
  /\ chk' = ChkIdle
  /\ UNCHANGED <<rules, active_alerts, now, cb_calls, all_events, checksLeft, adminLeft,
                 callback, call, cycle>>
  /\ EngUnchanged

EngContexts == {[zscore |-> 3], [zscore |-> -3]}

\* the steps of the thread that runs check_alerts, once it has been called
CheckThread ==
  \/ EngCheckRule
  \/ CbEnter
  \/ Acquire("check")
  \/ Body("check")
  \/ CbFinish
  \/ EngCheckEnd

NextEngine ==
  \/ \E t \in Callers, id \in RuleIds, en \in BOOLEAN : Call(t, "add_rule", id, en)
  \/ \E t \in Callers, id \in RuleIds : Call(t, "remove_rule", id, FALSE)
  \/ \E t \in Callers, id \in RuleIds, en \in BOOLEAN : Call(t, "update_rule", id, en)
  \/ \E t \in Callers : Call(t, "get_rules", "none", FALSE)
  \/ \E t \in Callers : Call(t, "get_active_alerts", "none", FALSE)
  \/ \E t \in Threads : Acquire(t)
  \/ \E t \in Threads : Body(t)
  \/ \E ctx \in EngContexts : EngCheckBegin(ctx)
  \/ EngCheckRule
  \/ CbEnter
  \/ CbFinish
  \/ EngCheckEnd

(***************************************************************************)
(* AnalyticsEngine.compute_zscore and MeanReversionBacktest                *)
(*                                                                         *)
(* Series are sequences of integers; iloc[i] of the source is element      *)
(* i + 1.  A rolling z-score over w observations with sum S and sum of     *)
(* squares Q at the value x is (x - S/w) / sqrt((Q - S*S/w) / (w - 1)):    *)
(* with n = w*x - S and d = w*Q - S*S it is n * sqrt((w-1) / (w*d)), kept   *)
(* exactly as the record [n, d, w].  d = 0 is 0/0, the NaN of the source,  *)
(* which compares false with everything.                                   *)
(***************************************************************************)
SpreadVals == {0, 1, 2}
Windows == {3, 4}
EntryThresholds == {1}
ExitThresholds == {-1, 0, 1}
SpreadSet == UNION {[1..n -> SpreadVals] : n \in 0..MaxLen}

RECURSIVE SumSeq(_)
SumSeq(s) == IF s = <<>> THEN 0 ELSE Head(s) + SumSeq(Tail(s))

SquareSeq(s) == [k \in 1..Len(s) |-> s[k] * s[k]]

\* compute_zscore(series, window).iloc[i], for window - 1 <= i < len(series)
ZScoreAtWide(series, w, i) ==
  LET win == SubSeq(series, IF i - w + 1 < 1 THEN 1 ELSE i - w + 1, i + 1)
  IN [n |-> w * series[i + 1] - SumSeq(win),
      d |-> w * SumSeq(SquareSeq(win)) - SumSeq(win) * SumSeq(win),
      w |-> w]
ZScoreAt(series, w, i) ==
  LET win == SubSeq(series, i - w + 2, i + 1)
  IN [n |-> w * series[i + 1] - SumSeq(win),
      d |-> w * SumSeq(SquareSeq(win)) - SumSeq(win) * SumSeq(win),
      w |-> w]

\* the missing value of the first window - 1 rows
ZNaN(w) == [n |-> 0, d |-> 0, w |-> w]

\* zscore = AnalyticsEngine.compute_zscore(spread, window=window), as a series
ComputeZScore(series, w) ==
  [k \in 1..Len(series) |-> IF k >= w THEN ZScoreAt(series, w, k - 1) ELSE ZNaN(w)]

\* z < c, z > c, z >= c, z <= c for an integer c
ZLt(z, c) ==
  /\ z.d > 0
  /\ IF c > 0 THEN z.n <= 0 \/ z.n * z.n * (z.w - 1) < c * c * z.w * z.d
     ELSE IF c = 0 THEN z.n < 0
     ELSE z.n < 0 /\ z.n * z.n * (z.w - 1) > c * c * z.w * z.d
ZGt(z, c) ==
  /\ z.d > 0
  /\ IF c > 0 THEN z.n > 0 /\ z.n * z.n * (z.w - 1) > c * c * z.w * z.d
     ELSE IF c = 0 THEN z.n > 0
     ELSE z.n >= 0 \/ z.n * z.n * (z.w - 1) < c * c * z.w * z.d
ZGe(z, c) == z.d > 0 /\ ~ZLt(z, c)
ZLe(z, c) == z.d > 0 /\ ~ZGt(z, c)

\* Entry logic: 1 = long, -1 = short, 0 = no entry
EntrySignalLongOnly(z, entry) == IF ZLt(z, -entry) THEN 1 ELSE 0
EntrySignal(z, entry) ==
  IF ZLt(z, -entry) THEN 1 ELSE IF ZGt(z, entry) THEN -1 ELSE 0

\* Exit logic
ExitSignalStrict(position, z, exit) ==
  (position = 1 /\ ZGt(z, exit)) \/ (position = -1 /\ ZLt(z, -exit))
ExitSignal(position, z, exit) ==
  (position = 1 /\ ZGe(z, exit)) \/ (position = -1 /\ ZLe(z, -exit))

\* Calculate P&L
TradePnlLongOnly(position, entry_price, exit_price) ==
  (exit_price - entry_price) * UnitSize
TradePnl(position, entry_price, exit_price) ==
  IF position = 1 THEN (exit_price - entry_price) * UnitSize
  ELSE (entry_price - exit_price) * UnitSize

Last(s) == s[Len(s)]
ReplaceLast(s, x) == [s EXCEPT ![Len(s)] = x]

\* trades[-1].update({exit_time, exit_price, exit_zscore, pnl})
CloseTrade(t, time, price, z, pnl) ==
  [exit_time |-> time, exit_price |-> price, exit_zscore |-> z, pnl |-> pnl] @@ t

BtUnchanged ==
  UNCHANGED <<bt_spread, bt_window, bt_entry, bt_exit, pipeVars, alertVars, storeVars, lockVars, wkVars, fnVars>>

InitBacktest ==
  /\ bt_pc = "start"
  /\ bt_spread \in SpreadSet
  /\ bt_window \in Windows
  /\ bt_entry \in EntryThresholds
  /\ bt_exit \in ExitThresholds
  /\ bt_zscore = <<>>
  /\ bt_i = 0 /\ bt_position = 0 /\ bt_trades = <<>>
  /\ bt_equity_curve = <<>> /\ bt_current_equity = 0 /\ bt_entries = 0
  /\ bt_result = <<>>

\* run: if len(spread) < window: return {}; else the loop's initial state
BtBegin ==
  /\ bt_pc = "start"
  /\ IF Len(bt_spread) < bt_window
       THEN /\ bt_pc' = "done"
            /\ bt_result' = [empty |-> TRUE]
            /\ UNCHANGED <<bt_zscore, bt_i, bt_current_equity>>
       ELSE /\ bt_pc' = "loop"
            /\ bt_zscore' = ComputeZScore(bt_spread, bt_window)
            /\ bt_i' = bt_window
            /\ bt_current_equity' = StartCapital
            /\ UNCHANGED bt_result
  /\ UNCHANGED <<bt_position, bt_trades, bt_equity_curve, bt_entries>>
  /\ BtUnchanged

\* one iteration of: for i in range(window, len(spread)):
BtStep ==
  /\ bt_pc = "loop"
  /\ bt_i < Len(bt_spread)
  /\ LET z == bt_zscore[bt_i + 1]
         price == bt_spread[bt_i + 1]
         sig == EntrySignal(z, bt_entry)
         pnl == TradePnl(bt_position, Last(bt_trades).entry_price, price)
     IN IF bt_position = 0
          THEN /\ bt_position' = sig
               /\ bt_trades' =
                    IF sig = 0 THEN bt_trades
                    ELSE Append(bt_trades,
                           [type |-> IF sig = 1 THEN "LONG" ELSE "SHORT",
                            entry_time |-> bt_i, entry_price |-> price,
                            entry_zscore |-> z])
               /\ bt_entries' = IF sig = 0 THEN bt_entries ELSE bt_entries + 1
               /\ bt_current_equity' = bt_current_equity
               /\ bt_equity_curve' = Append(bt_equity_curve, bt_current_equity)
          ELSE IF ExitSignal(bt_position, z, bt_exit)
            THEN /\ bt_position' = 0
                 /\ bt_trades' = ReplaceLast(bt_trades,
                                   CloseTrade(Last(bt_trades), bt_i, price, z, pnl))
                 /\ bt_current_equity' = bt_current_equity + pnl
                 /\ bt_equity_curve' = Append(bt_equity_curve, bt_current_equity + pnl)
                 /\ UNCHANGED bt_entries
            ELSE /\ bt_equity_curve' = Append(bt_equity_curve, bt_current_equity)
                 /\ UNCHANGED <<bt_position, bt_trades, bt_current_equity, bt_entries>>
  /\ bt_i' = bt_i + 1
  /\ UNCHANGED <<bt_pc, bt_result, bt_zscore>>
  /\ BtUnchanged

\* Close any open positions: the trade list and equity after the loop
ForceCloseSkip(position, trades, spread, zscore, equity) ==
  [trades |-> trades, equity |-> equity, closed |-> FALSE]
ForceClose(position, trades, spread, zscore, equity) ==
  IF position # 0 /\ trades # <<>>
    THEN LET price == Last(spread)
             pnl == TradePnl(position, Last(trades).entry_price, price)
         IN [trades |-> ReplaceLast(trades,
                          CloseTrade(Last(trades), Len(spread) - 1, price,
                                     Last(zscore), pnl)),
             equity |-> equity + pnl, closed |-> TRUE]
    ELSE [trades |-> trades, equity |-> equity, closed |-> FALSE]

\* _calculate_max_drawdown: the loop from position k on, with the peak and
\* the largest drawdown so far
RECURSIVE DrawdownLoop(_, _, _, _)
DrawdownLoop(equity_curve, k, peak, max_dd) ==
  IF k > Len(equity_curve) THEN max_dd
  ELSE LET equity == equity_curve[k]
           pk == IF equity > peak THEN equity ELSE peak
           dd == RMul(RDiv(RInt(pk - equity), RInt(pk)), RInt(100))
       IN DrawdownLoop(equity_curve, k + 1, pk, IF RLt(max_dd, dd) THEN dd ELSE max_dd)

\* _calculate_max_drawdown(equity_curve)
CalculateMaxDrawdownFromFirst(equity_curve) ==
  IF equity_curve = <<>> THEN RInt(0)
  ELSE LET dd == RMul(RDiv(RInt(equity_curve[1] - Last(equity_curve)),
                           RInt(equity_curve[1])), RInt(100))
       IN IF RLt(RInt(0), dd) THEN dd ELSE RInt(0)
CalculateMaxDrawdown(equity_curve) ==
  IF equity_curve = <<>> THEN RInt(0)
  ELSE DrawdownLoop(equity_curve, 1, equity_curve[1], RInt(0))

\* Calculate statistics
BacktestResult(trades, equity_curve, equity) ==
  IF trades = <<>>
    THEN [total_trades |-> 0, equity_curve |-> equity_curve, trades |-> <<>>]
    ELSE LET completed == SelectSeq(trades, LAMBDA t : "pnl" \in DOMAIN t)
             pnls == [k \in 1..Len(completed) |-> completed[k].pnl]
             winning_trades == SelectSeq(pnls, LAMBDA x : x > 0)
             losing_trades == SelectSeq(pnls, LAMBDA x : x < 0)
         IN [total_trades |-> Len(completed),
             winning_trades |-> Len(winning_trades),
             losing_trades |-> Len(losing_trades),
             win_rate |-> IF completed # <<>>
                            THEN Rat(Len(winning_trades), Len(completed))
                            ELSE RInt(0),
             total_pnl |-> SumSeq(pnls),
             profit_factor |->
               IF losing_trades # <<>> /\ SumSeq(losing_trades) # 0
                 THEN RAbs(RDiv(RInt(SumSeq(winning_trades)),
                                RInt(SumSeq(losing_trades))))
                 ELSE RInt(0),
             max_drawdown |-> CalculateMaxDrawdown(equity_curve),
             final_equity |-> equity,
             equity_curve |-> equity_curve,
             trades |-> trades]

\* the loop is over: forced close, statistics, return
BtFinish ==
  /\ bt_pc = "loop"
  /\ bt_i = Len(bt_spread)
  /\ LET fc == ForceClose(bt_position, bt_trades, bt_spread, bt_zscore,
                          bt_current_equity)
         curve == IF fc.closed
                    THEN ReplaceLast(bt_equity_curve, fc.equity)
                    ELSE bt_equity_curve
     IN /\ bt_trades' = fc.trades
        /\ bt_current_equity' = fc.equity
        /\ bt_equity_curve' = curve
        /\ bt_result' = BacktestResult(fc.trades, curve, fc.equity)
  /\ bt_pc' = "done"
  /\ UNCHANGED <<bt_i, bt_position, bt_entries, bt_zscore>>
  /\ BtUnchanged

NextBacktest ==
  \/ BtBegin
  \/ BtStep
  \/ BtFinish

(***************************************************************************)
(* DataSampler.resample_ticks                                              *)
(*                                                                         *)
(* A DataFrame is the sequence of its rows.  NaN is the missing value a    *)
(* pandas aggregate gives for an interval without rows.  Series.resample   *)
(* orders the rows by time with a stable sort and makes one bin for every  *)
(* interval between the first and the last row of the group, empty ones    *)
(* included; DataFrame.dropna then removes the rows that hold a NaN.       *)
(***************************************************************************)
TIMEFRAMES == ("1s" :> 1) @@ ("1m" :> 60) @@ ("5m" :> 300)
\* the missing value, which is no price
NaN == -1

\* rows the resampler is given: two intervals of every timeframe are hit,
\* with an empty interval between them for 1s and 1m
SampleTimes == {1000, 1500, 123000}
SampleRows ==
  {[timestamp |-> t, symbol |-> sy, price |-> pr[1], size |-> pr[2]] :
     t \in SampleTimes, sy \in SymbolSet, pr \in {<<100, 1>>, <<105, 2>>}}
SampleFrames == UNION {[1..n -> SampleRows] : n \in 0..MaxRows}

MinOf(S) == CHOOSE x \in S : \A y \in S : x <= y
MaxOf(S) == CHOOSE x \in S : \A y \in S : x >= y
Range(f) == {f[k] : k \in DOMAIN f}

\* the interval start of a timestamp: pandas bins are left-closed and start
\* at multiples of the interval
FloorToNext(t, len) == t - (t % len) + len
FloorTo(t, len) == t - (t % len)

\* rows ordered by timestamp, rows of equal timestamp in their given order
SortRowsKeep(rows) == rows
RECURSIVE SortRows(_)
SortRows(rows) ==
  IF rows = <<>> THEN <<>>
  ELSE LET m == MinOf({rows[k].timestamp : k \in 1..Len(rows)})
       IN SelectSeq(rows, LAMBDA r : r.timestamp = m)
            \o SortRows(SelectSeq(rows, LAMBDA r : r.timestamp # m))

\* agg({'open': 'first', 'high': 'max', 'low': 'min', 'close': 'last'}),
\* sum and count of the sizes, over the rows of one bin
AggregateBinHighOfEnds(sy, start, rows) ==
  IF rows = <<>>
    THEN [timestamp |-> start, symbol |-> sy, open |-> NaN, high |-> NaN,
          low |-> NaN, close |-> NaN, volume |-> 0, trade_count |-> 0]
    ELSE [timestamp |-> start, symbol |-> sy,
          open |-> rows[1].price,
          high |-> rows[Len(rows)].price,
          low |-> MinOf({rows[k].price : k \in 1..Len(rows)}),
          close |-> rows[Len(rows)].price,
          volume |-> SumSeq([k \in 1..Len(rows) |-> rows[k].size]),
          trade_count |-> Len(rows)]
AggregateBin(sy, start, rows) ==
  IF rows = <<>>
    THEN [timestamp |-> start, symbol |-> sy, open |-> NaN, high |-> NaN,
          low |-> NaN, close |-> NaN, volume |-> 0, trade_count |-> 0]
    ELSE [timestamp |-> start, symbol |-> sy,
          open |-> rows[1].price,
          high |-> MaxOf({rows[k].price : k \in 1..Len(rows)}),
          low |-> MinOf({rows[k].price : k \in 1..Len(rows)}),
          close |-> rows[Len(rows)].price,
          volume |-> SumSeq([k \in 1..Len(rows) |-> rows[k].size]),
          trade_count |-> Len(rows)]

\* the bars of one symbol group, one per bin from the first to the last
ResampleGroup(sy, group, len) ==
  LET sorted == SortRows(group)
      first == FloorTo(sorted[1].timestamp, len)
      last == FloorTo(sorted[Len(sorted)].timestamp, len)
  IN [b \in 1..((last - first) \div len + 1) |->
        AggregateBin(sy, first + (b - 1) * len,
                     SelectSeq(sorted, LAMBDA r :
                                 FloorTo(r.timestamp, len) = first + (b - 1) * len))]

\* result.dropna()
DropNaKeepFirst(bars) ==
  LET empty == {k \in 1..Len(bars) :
                  NaN \in {bars[k].open, bars[k].high, bars[k].low, bars[k].close}}
  IN SelectSeq(bars, LAMBDA b :
       \/ NaN \notin {b.open, b.high, b.low, b.close}
       \/ \E k \in empty : bars[k] = b /\ \A j \in empty : j >= k)
DropNa(bars) ==
  SelectSeq(bars, LAMBDA b : NaN \notin {b.open, b.high, b.low, b.close})

\* for symbol, group in ticks.groupby('symbol'): ...; pd.concat(bars_list)
RECURSIVE ConcatGroups(_, _, _)
ConcatGroups(ticks, len, k) ==
  IF k = 0 THEN <<>>
  ELSE LET group == SelectSeq(ticks, LAMBDA r : r.symbol = Symbols[k])
       IN ConcatGroups(ticks, len, k - 1)
            \o (IF group = <<>> THEN <<>> ELSE ResampleGroup(Symbols[k], group, len))

\* DataSampler.resample_ticks(ticks, timeframe), timeframe in TIMEFRAMES
ResampleTicks(ticks, tf) ==
  IF ticks = <<>> THEN <<>>
  ELSE DropNa(ConcatGroups(ticks, TIMEFRAMES[tf] * 1000, Len(Symbols)))

(***************************************************************************)
(* DataStorage                                                             *)
(*                                                                         *)
(* db_bars[tf] is the table "<tf>_bars" in rowid order and db_ids[tf] the  *)
(* largest id AUTOINCREMENT has given out in it; db_ticks is the table     *)
(* ticks.  None is Python's None.  q_result is what the last query         *)
(* call did: the rows a query returned, or that insert_bars has stored,    *)
(* together with the arguments of the call; a query is made when the       *)
(* result of the one before has been taken.                                *)
(***************************************************************************)
NoResult == [kind |-> "none"]
\* an argument that was not given
None == -1

IdleStore ==
  /\ rs_pc = "off" /\ rs_ticks = <<>> /\ rs_tf = "1s" /\ rs_bars = <<>>
  /\ db_bars = [tf \in DOMAIN TIMEFRAMES |-> <<>>]
  /\ db_ids = [tf \in DOMAIN TIMEFRAMES |-> 0]
  /\ q_result = NoResult
  /\ storeLeft = 0

\* the row INSERT stores: the columns of the bar and a fresh id
BarRow(id, bar) ==
  [id |-> id, timestamp |-> bar.timestamp, symbol |-> bar.symbol, open |-> bar.open,
   high |-> bar.high, low |-> bar.low, close |-> bar.close, volume |-> bar.volume,
   trade_count |-> bar.trade_count]

\* INSERT OR REPLACE under UNIQUE(symbol, timestamp)
InsertRowAppend(table, id, bar) == Append(table, BarRow(id, bar))
InsertRowIgnore(table, id, bar) ==
  IF \E k \in 1..Len(table) :
       table[k].symbol = bar.symbol /\ table[k].timestamp = bar.timestamp
    THEN table
    ELSE Append(table, BarRow(id, bar))
InsertRow(table, id, bar) ==
  Append(SelectSeq(table, LAMBDA r : ~(r.symbol = bar.symbol /\ r.timestamp = bar.timestamp)),
         BarRow(id, bar))

\* for _, row in bars.iterrows(): conn.execute(INSERT OR REPLACE ...)
RECURSIVE InsertRows(_, _, _)
InsertRows(table, lastid, bars) ==
  IF bars = <<>> THEN [rows |-> table, id |-> lastid]
  ELSE LET prev == InsertRows(table, lastid, SubSeq(bars, 1, Len(bars) - 1))
       IN [rows |-> InsertRow(prev.rows, prev.id + 1, bars[Len(bars)]),
           id |-> prev.id + 1]

\* `if start_time:`, `if end_time:`, `if limit:`
Truthy(x) == x # None /\ x # 0

\* WHERE symbol = ? [AND timestamp >= ?] [AND timestamp <= ?]
Matches(r, symbol, start_time, end_time) ==
  /\ r.symbol = symbol
  /\ Truthy(start_time) => r.timestamp >= start_time
  /\ Truthy(end_time) => r.timestamp <= end_time

DropId(rows) ==
  [k \in 1..Len(rows) |-> [f \in DOMAIN rows[k] \ {"id"} |-> rows[k][f]]]

\* get_bars: ORDER BY timestamp DESC [LIMIT ?], then sort_values('timestamp')
\* and drop('id'); (symbol, timestamp) is unique in a bar table
GetBars(table, symbol, start_time, end_time, limit) ==
  LET asc == SortRows(SelectSeq(table, LAMBDA r : Matches(r, symbol, start_time, end_time)))
  IN DropId(IF Truthy(limit) THEN LastN(asc, limit) ELSE asc)

\* get_ticks: the same query on the table ticks, where timestamps repeat:
\* which of the rows of equal timestamp LIMIT keeps, and the order
\* sort_values gives them, are not determined
GetTicksResults(table, symbol, start_time, end_time, limit) ==
  LET match == {k \in 1..Len(table) : Matches(table[k], symbol, start_time, end_time)}
      n == IF Truthy(limit) /\ limit < Cardinality(match)
             THEN limit ELSE Cardinality(match)
      kept == {J \in SUBSET match :
                 /\ Cardinality(J) = n
                 /\ \A j \in J, k \in match \ J : table[j].timestamp >= table[k].timestamp}
  IN {[k \in 1..n |-> table[f[k]]] :
        f \in {g \in [1..n -> match] :
                 /\ \E J \in kept : Range(g) = J
                 /\ \A a, b \in 1..n : a < b => table[g[a]].timestamp <= table[g[b]].timestamp}}

StoreUnchanged == UNCHANGED <<alertVars, btVars, lockVars, wkVars, fnVars>>

\* _resample_worker, after the snapshot: bars = resample_ticks(ticks_df,
\* timeframe); if not bars.empty: insert_bars(timeframe, bars).  The second
\* cycle aggregates the same snapshot again, as a worker does when no tick
\* arrived in between.
RsCycle ==
  /\ rs_pc \in {"start", "stored"}
  /\ rs_pc' = IF rs_pc = "start" THEN "stored" ELSE "replayed"
  /\ rs_bars' = ResampleTicks(rs_ticks, rs_tf)
  /\ LET ins == InsertRows(db_bars[rs_tf], db_ids[rs_tf], ResampleTicks(rs_ticks, rs_tf))
     IN /\ db_bars' = [db_bars EXCEPT ![rs_tf] = ins.rows]
        /\ db_ids' = [db_ids EXCEPT ![rs_tf] = ins.id]
  /\ UNCHANGED <<rs_ticks, rs_tf, q_result, storeLeft, pipeVars>>
  /\ StoreUnchanged

\* bars a caller may hand to insert_bars: two contents, two keys of one
\* symbol and one key of the other
BarA(sy, t) ==
  [timestamp |-> t, symbol |-> sy, open |-> 100, high |-> 105, low |-> 100,
   close |-> 105, volume |-> 3, trade_count |-> 2]
BarB(sy, t) ==
  [timestamp |-> t, symbol |-> sy, open |-> 105, high |-> 105, low |-> 95,
   close |-> 100, volume |-> 1, trade_count |-> 1]
StoreBars ==
  {BarA("btcusdt", 1000), BarB("btcusdt", 1000), BarA("btcusdt", 2000),
   BarA("ethusdt", 1000)}
\* DataFrames of no row, one row, two rows of one key, two rows of two keys
StoreFrames ==
  {<<>>} \cup {<<b>> : b \in StoreBars}
    \cup {<<BarA("btcusdt", 1000), BarB("btcusdt", 1000)>>,
          <<BarA("btcusdt", 2000), BarA("ethusdt", 1000)>>}
StoreTimeframes == {"1s", "1m", "2h"}
QueryStarts == {None, 0, 2000}
QueryEnds == {None, 0, 1000}
QueryLimits == {None, 0, 1}

\* DataStorage.insert_bars(timeframe, bars)
InsertBarsCall(tf, bars) ==
  /\ storeLeft > 0
  /\ storeLeft' = storeLeft - 1
  /\ IF tf \in DOMAIN TIMEFRAMES
       THEN LET ins == InsertRows(db_bars[tf], db_ids[tf], bars)
            IN /\ db_bars' = [db_bars EXCEPT ![tf] = ins.rows]
               /\ db_ids' = [db_ids EXCEPT ![tf] = ins.id]
               /\ q_result' = [kind |-> "stored", timeframe |-> tf, bars |-> bars]
       ELSE /\ q_result' = [kind |-> "ValueError"]
            /\ UNCHANGED <<db_bars, db_ids>>
  /\ UNCHANGED <<rs_pc, rs_ticks, rs_tf, rs_bars, pipeVars>>
  /\ StoreUnchanged

\* DataStorage.get_bars(symbol, timeframe, start_time, end_time, limit)
GetBarsCall(symbol, tf, start_time, end_time, limit) ==
  /\ q_result.kind \in {"none", "stored"}
  /\ q_result' =
       IF tf \in DOMAIN TIMEFRAMES
         THEN [kind |-> "bars", symbol |-> symbol, timeframe |-> tf,
               start_time |-> start_time, end_time |-> end_time, limit |-> limit,
               rows |-> GetBars(db_bars[tf], symbol, start_time, end_time, limit)]
         ELSE [kind |-> "ValueError"]
  /\ UNCHANGED <<rs_pc, rs_ticks, rs_tf, rs_bars, db_bars, db_ids, storeLeft, pipeVars>>
  /\ StoreUnchanged

StoreTicks == [timestamp : {1000, 2000}, symbol : SymbolSet, price : {100, 105}, size : {1}]

\* DataStorage.insert_tick(timestamp, symbol, price, size)
InsertTickCall(t) ==
  /\ ticksLeft > 0
  /\ ticksLeft' = ticksLeft - 1
  /\ db_ticks' = Append(db_ticks, t)
  /\ q_result' = NoResult
  /\ UNCHANGED <<running, gen, tick_buffers, plock, wpc, widx, all_ticks, apc,
                 cl_running, cl_ws, cpc, cl_tick, startsLeft, pushed, log_warn, misuse,
                 stopSeen, cl_stopped>>
  /\ UNCHANGED <<rs_pc, rs_ticks, rs_tf, rs_bars, db_bars, db_ids, storeLeft>>
  /\ StoreUnchanged

\* DataStorage.get_ticks(symbol, start_time, end_time, limit)
GetTicksCall(symbol, start_time, end_time, limit) ==
  /\ q_result = NoResult
  /\ \E rows \in GetTicksResults(db_ticks, symbol, start_time, end_time, limit) :
       q_result' = [kind |-> "ticks", symbol |-> symbol, start_time |-> start_time,
                    end_time |-> end_time, limit |-> limit, rows |-> rows]
  /\ UNCHANGED <<rs_pc, rs_ticks, rs_tf, rs_bars, db_bars, db_ids, storeLeft, pipeVars>>
  /\ StoreUnchanged

\* DataSampler.resample_ticks(ticks, timeframe) as its caller sees it: the
\* test of the timeframe comes before the test for an empty frame
ResampleTicksResultEmptyFirst(ticks, tf) ==
  IF ticks = <<>> THEN [kind |-> "resampled", timeframe |-> tf, bars |-> <<>>]
  ELSE IF tf \notin DOMAIN TIMEFRAMES THEN [kind |-> "ValueError"]
  ELSE [kind |-> "resampled", timeframe |-> tf, bars |-> ResampleTicks(ticks, tf)]
ResampleTicksResult(ticks, tf) ==
  IF tf \notin DOMAIN TIMEFRAMES THEN [kind |-> "ValueError"]
  ELSE [kind |-> "resampled", timeframe |-> tf, bars |-> ResampleTicks(ticks, tf)]

\* tick frames a caller may hand to resample_ticks
CallFrames == {<<>>} \cup {<<t>> : t \in StoreTicks}

\* a call of DataSampler.resample_ticks(ticks, timeframe)
ResampleTicksCall(ticks, tf) ==
  /\ q_result' = ResampleTicksResult(ticks, tf)
  /\ UNCHANGED <<rs_pc, rs_ticks, rs_tf, rs_bars, db_bars, db_ids, storeLeft, pipeVars>>
  /\ StoreUnchanged

NextResample == RsCycle

\* the three functions that take a timeframe name, called with configured
\* and other names
NextTimeframe ==
  \/ \E tf \in StoreTimeframes, ticks \in CallFrames : ResampleTicksCall(ticks, tf)
  \/ \E tf \in StoreTimeframes, bars \in StoreFrames : InsertBarsCall(tf, bars)
  \/ \E sy \in SymbolSet, tf \in StoreTimeframes, lim \in QueryLimits :
       GetBarsCall(sy, tf, None, None, lim)

NextStore ==
  \/ \E tf \in StoreTimeframes, bars \in StoreFrames : InsertBarsCall(tf, bars)
  \/ \E sy \in SymbolSet, tf \in StoreTimeframes, st \in QueryStarts, en \in QueryEnds,
        lim \in QueryLimits : GetBarsCall(sy, tf, st, en, lim)

NextTicks ==
  \/ \E t \in StoreTicks : InsertTickCall(t)
  \/ \E sy \in SymbolSet, st \in QueryStarts, en \in QueryEnds, lim \in QueryLimits :
       GetTicksCall(sy, st, en, lim)


(***************************************************************************)
(* The periodic workers with the steps that can fail.  A worker's cycle    *)
(* runs in a try block inside its loop; wk_log is what the except clauses  *)
(* have logged.  a_idx[g] is the number of symbols alert worker g has      *)
(* dealt with in its cycle and a_out[g] how each of them ended.            *)
(***************************************************************************)
IdleWorkers ==
  /\ wk_log = <<>>
  /\ a_idx = [g \in Gens |-> 0]
  /\ a_out = [g \in Gens |-> <<>>]
  /\ failsLeft = 0

IdleFn ==
  /\ cl_seen = <<>>
  /\ kf = [pc |-> "off"]
  /\ zs = [pc |-> "off"]
  /\ an = [pc |-> "off"]

\* except Exception as e: logger.error(...): the thread goes on at the
\* statement after the try block
CaughtExit(next) == "exited"
Caught(next) == next

WOutcomes == {"ok", "resample_error", "insert_error"}
\* the resample worker that is followed: the workers run the same code
CycleWorkers == {w \in WorkerIds : w[2] = "1s"}
\* the trades that fill the buffers for the workers
WorkerTicks == {t \in TickSet : t.symbol = Symbols[1] /\ t.timestamp = 1}
AOutcomes == {"ok", "few", "error"}

\* bars = DataSampler.resample_ticks(ticks_df, timeframe); if not
\* bars.empty: self.storage.insert_bars(timeframe, bars), either of which
\* may raise
WCycle(w, outcome) ==
  /\ wpc[w] = "resample"
  /\ all_ticks' = [all_ticks EXCEPT ![w] = <<>>]
  /\ widx' = [widx EXCEPT ![w] = 0]
  /\ IF outcome = "ok"
       THEN /\ storeLeft > 0
            /\ storeLeft' = storeLeft - 1
            /\ LET ins == InsertRows(db_bars[w[2]], db_ids[w[2]],
                                     ResampleTicks(all_ticks[w], w[2]))
               IN /\ db_bars' = [db_bars EXCEPT ![w[2]] = ins.rows]
                  /\ db_ids' = [db_ids EXCEPT ![w[2]] = ins.id]
            /\ wpc' = [wpc EXCEPT ![w] = "loop"]
            /\ UNCHANGED wkVars
       ELSE /\ failsLeft > 0
            /\ failsLeft' = failsLeft - 1
            /\ wk_log' = Append(wk_log, [worker |-> w[2], step |-> outcome])
            /\ wpc' = [wpc EXCEPT ![w] = Caught("loop")]
            /\ UNCHANGED <<db_bars, db_ids, storeLeft, a_idx, a_out>>
  /\ UNCHANGED <<running, gen, tick_buffers, plock, db_ticks, apc, cl_running, cl_ws, cpc,
                 cl_tick, startsLeft, ticksLeft, pushed, log_warn, misuse, stopSeen,
                 cl_stopped>>
  /\ UNCHANGED <<rs_pc, rs_ticks, rs_tf, rs_bars, q_result, alertVars, btVars, lockVars, fnVars>>

\* one iteration of `for symbol in self.symbols:` with its own try block:
\* get_ticks, the metrics and check_alerts, any of which may raise; fewer
\* than 100 ticks: continue
ASymbol(g, outcome) ==
  /\ apc[g] = "check"
  /\ a_idx[g] < Len(Symbols)
  /\ a_idx' = [a_idx EXCEPT ![g] = @ + 1]
  /\ a_out' = [a_out EXCEPT ![g] = Append(@, outcome)]
  /\ IF outcome = "error"
       THEN /\ failsLeft > 0
            /\ failsLeft' = failsLeft - 1
            /\ wk_log' = Append(wk_log, [worker |-> "alert", step |-> Symbols[a_idx[g] + 1]])
            /\ apc' = [apc EXCEPT ![g] = Caught("check")]
       ELSE UNCHANGED <<failsLeft, wk_log, apc>>
  /\ UNCHANGED <<running, gen, tick_buffers, plock, db_ticks, wpc, widx, all_ticks,
                 cl_running, cl_ws, cpc, cl_tick, startsLeft, ticksLeft, pushed, log_warn,
                 misuse, stopSeen, cl_stopped>>
  /\ UNCHANGED <<alertVars, btVars, storeVars, lockVars, fnVars>>

\* the for loop is over
AEnd(g) ==
  /\ apc[g] = "check"
  /\ a_idx[g] = Len(Symbols)
  /\ apc' = [apc EXCEPT ![g] = "loop"]
  /\ a_idx' = [a_idx EXCEPT ![g] = 0]
  /\ a_out' = [a_out EXCEPT ![g] = <<>>]
  /\ UNCHANGED <<failsLeft, wk_log>>
  /\ UNCHANGED <<running, gen, tick_buffers, plock, db_ticks, wpc, widx, all_ticks,
                 cl_running, cl_ws, cpc, cl_tick, startsLeft, ticksLeft, pushed, log_warn,
                 misuse, stopSeen, cl_stopped>>
  /\ UNCHANGED <<alertVars, btVars, storeVars, lockVars, fnVars>>

NextWorkers ==
  \/ Start
  \/ Stop
  \/ \E w \in CycleWorkers : WLoop(w)
  \/ \E w \in CycleWorkers : WWake(w)
  \/ \E w \in CycleWorkers : WLock(w)
  \/ \E w \in CycleWorkers : WCopy(w)
  \/ \E w \in CycleWorkers : WRelease(w)
  \/ \E w \in CycleWorkers, o \in WOutcomes : WCycle(w, o)
  \/ \E g \in Gens : ALoop(g)
  \/ \E g \in Gens : AWake(g)
  \/ \E g \in Gens, o \in AOutcomes : ASymbol(g, o)
  \/ \E g \in Gens : AEnd(g)
  \/ \E g \in Gens : CConnect(g)
  \/ \E g \in Gens : COpen(g)
  \/ \E g \in Gens, t \in WorkerTicks : CMessage(g, t, TRUE)
  \/ \E g \in Gens : TickPush(g)

\* the pipeline started, stopped and started again while its workers run
\* their cycles on the ticks the clients deliver
NextRestart ==
  \/ Start
  \/ StartRunning
  \/ Stop
  \/ \E w \in CycleWorkers : WLoop(w)
  \/ \E w \in CycleWorkers : WWake(w)
  \/ \E w \in CycleWorkers : WLock(w)
  \/ \E w \in CycleWorkers : WCopy(w)
  \/ \E w \in CycleWorkers : WRelease(w)
  \/ \E w \in CycleWorkers : WCycle(w, "ok")
  \/ \E g \in Gens : ALoop(g)
  \/ \E g \in Gens : AWake(g)
  \/ \E g \in Gens : ACheck(g)
  \/ \E g \in Gens : CConnect(g)
  \/ \E g \in Gens : COpen(g)
  \/ \E g \in Gens, t \in WorkerTicks : CMessage(g, t, TRUE)
  \/ \E g \in Gens : TickPush(g)

\* trades of one symbol in two intervals of the 1s timeframe, enough of
\* them to make the buffer drop the oldest
RebarTicks == [timestamp : {1, 1001}, symbol : {Symbols[1]}, price : {100}, size : {1}]

\* one start() and the resample worker of 1s over a buffer that overflows
NextRebar ==
  \/ Start
  \/ \E w \in CycleWorkers : WLoop(w)
  \/ \E w \in CycleWorkers : WWake(w)
  \/ \E w \in CycleWorkers : WLock(w)
  \/ \E w \in CycleWorkers : WCopy(w)
  \/ \E w \in CycleWorkers : WRelease(w)
  \/ \E w \in CycleWorkers : WCycle(w, "ok")
  \/ \E g \in Gens : CConnect(g)
  \/ \E g \in Gens : COpen(g)
  \/ \E g \in Gens, t \in RebarTicks : CMessage(g, t, TRUE)
  \/ \E g \in Gens : TickPush(g)

(***************************************************************************)
(* BinanceWebSocketClient._on_message on arbitrary messages                *)
(***************************************************************************)
\* a field of the trade object: absent, text that float() rejects, or text
\* of a number
Absent == [k |-> "absent", v |-> 0]
Text == [k |-> "text", v |-> 0]
Num(v) == [k |-> "num", v |-> v]
NoField == "<absent>"

RawSymbols == {NoField, "", "BTCUSDT"}
RawPrices == {Absent, Text, Num(0), Num(0 - 5), Num(100)}
\* kind "garbage": json.loads raises; "no_data": JSON without a 'data' key
Events ==
  {[kind |-> k, s |-> NoField, p |-> Absent, q |-> Absent, T |-> 1] : k \in {"garbage", "no_data"}}
    \cup [kind : {"trade"}, s : RawSymbols, p : RawPrices, q : {Num(1)}, T : {1}]
    \cup {[kind |-> "trade", s |-> "BTCUSDT", p |-> Num(100), q |-> Text, T |-> 1]}

\* str.lower()
Lower(s) == IF s = "BTCUSDT" THEN "btcusdt" ELSE s

\* trade.get('s', '')
GetSymbol(field) == IF field = NoField THEN "" ELSE field

\* trade.get(key, 0) for the price and the size
GetNumber(field) == IF field.k = "absent" THEN Num(0) ELSE field

\* if symbol and price > 0:
DeliverableAnyPrice(symbol, price) == symbol # ""
Deliverable(symbol, price) == symbol # "" /\ price > 0

\* _on_message up to the call of self.callback: out is "call" with the
\* arguments of the call, "skip" when the message is passed over and
\* "error" when an exception was caught and logged
OnMessage(m) ==
  IF m.kind = "garbage" THEN [out |-> "error", tick |-> <<>>]
  ELSE IF m.kind # "trade" THEN [out |-> "skip", tick |-> <<>>]
  ELSE LET symbol == Lower(GetSymbol(m.s))
           p == GetNumber(m.p)
           q == GetNumber(m.q)
       IN IF p.k = "text" \/ q.k = "text" THEN [out |-> "error", tick |-> <<>>]
          ELSE IF Deliverable(symbol, p.v)
                 THEN [out |-> "call",
                       tick |-> [timestamp |-> m.T, symbol |-> symbol,
                                 price |-> p.v, size |-> q.v]]
                 ELSE [out |-> "skip", tick |-> <<>>]

\* _on_message(ws, message); ok = FALSE: insert_tick raises inside the
\* callback, which _on_message catches and logs
CEvent(g, m, ok) ==
  /\ cpc[g] = "open"
  /\ cl_ws[g] = "open"
  /\ ticksLeft > 0
  /\ ticksLeft' = ticksLeft - 1
  /\ cl_seen' = Append(cl_seen, m)
  /\ IF OnMessage(m).out = "call" /\ ok
       THEN /\ db_ticks' = Append(db_ticks, OnMessage(m).tick)
            /\ cl_tick' = [cl_tick EXCEPT ![g] = OnMessage(m).tick]
            /\ cpc' = [cpc EXCEPT ![g] = "push"]
       ELSE UNCHANGED <<db_ticks, cl_tick, cpc>>
  /\ UNCHANGED <<tick_buffers, cl_ws, pushed>>
  /\ UNCHANGED <<running, gen, plock, wpc, widx, all_ticks, apc, cl_running,
                 startsLeft, log_warn, misuse, stopSeen, cl_stopped>>
  /\ UNCHANGED <<alertVars, btVars, storeVars, lockVars, wkVars, anVars>>

NextIngest ==
  \/ Start
  \/ Stop
  \/ \E g \in Gens : CConnect(g)
  \/ \E g \in Gens : COpen(g)
  \/ \E g \in Gens, m \in Events, ok \in BOOLEAN : CEvent(g, m, ok)
  \/ \E g \in Gens : TickPush(g)

(***************************************************************************)
(* AnalyticsEngine.compute_kalman_hedge_ratio                              *)
(***************************************************************************)
\* rows <<p1, p2>> of the two price series on their common index; a series
\* that is shorter or has a gap holds NaN there
KfRows == {<<0 - 4, 0 - 2>>, <<2, 1>>, <<2, 0 - 2>>, <<0 - 4, 1>>, <<NaN, 1>>, <<2, NaN>>}
KfFrames == UNION {[1..n -> KfRows] : n \in 0..MaxObs}
KfBetas == {RInt(0), RInt(3)}
KfProcessVariances == {Rat(1, 2), RInt(1)}
KfMeasurementVariances == {RInt(1), RInt(2)}

\* the series prices1 (c = 1) or prices2 (c = 2), NaN included
Column(frame, c) == [k \in 1..Len(frame) |-> frame[k][c]]

\* pd.DataFrame({'p1': prices1, 'p2': prices2}).dropna()
Aligned(frame) == SelectSeq(frame, LAMBDA r : r[1] # NaN /\ r[2] # NaN)

\* P_pred = P + process_variance
PredictSame(P, process_variance) == P
Predict(P, process_variance) == RAdd(P, process_variance)

\* S = x * P_pred * x + measurement_variance
InnovationNoNoise(x, P_pred, measurement_variance) == RMul(RMul(x, P_pred), x)
Innovation(x, P_pred, measurement_variance) ==
  RAdd(RMul(RMul(x, P_pred), x), measurement_variance)

\* K = P_pred * x / S
Gain(P_pred, x, S) == RDiv(RMul(P_pred, x), S)

KfCall(frame, initial_beta, process_variance, measurement_variance) ==
  [pc |-> "start", frame |-> frame, initial_beta |-> initial_beta,
   process_variance |-> process_variance,
   measurement_variance |-> measurement_variance,
   aligned |-> <<>>, i |-> 0, beta |-> initial_beta, P |-> RInt(1),
   betas |-> <<>>, hedge_ratios |-> <<>>, spreads |-> <<>>]

KfUnchanged == UNCHANGED <<pipeVars, alertVars, btVars, storeVars, lockVars, wkVars, cl_seen, zs, an>>

\* the two length tests, aligned, n, betas = np.zeros(n), beta, P,
\* betas[0] = beta
KfBegin ==
  /\ kf.pc = "start"
  /\ LET aligned == Aligned(kf.frame)
     IN IF Len(Column(kf.frame, 1)) < 2 \/ Len(Column(kf.frame, 2)) < 2 \/ Len(aligned) < 2
          THEN kf' = [kf EXCEPT !.pc = "done"]
          ELSE kf' = [kf EXCEPT !.pc = "loop", !.aligned = aligned, !.i = 1,
                                !.betas = [k \in 1..Len(aligned) |->
                                             IF k = 1 THEN kf.initial_beta ELSE RInt(0)]]
  /\ KfUnchanged

\* one pass of `for i in range(1, n):`
KfStep ==
  /\ kf.pc = "loop"
  /\ kf.i < Len(kf.aligned)
  /\ LET P_pred == Predict(kf.P, kf.process_variance)
         y == RInt(kf.aligned[kf.i + 1][1])
         x == RInt(kf.aligned[kf.i + 1][2])
         residual == RSub(y, RMul(kf.beta, x))
         S == Innovation(x, P_pred, kf.measurement_variance)
         K == Gain(P_pred, x, S)
         beta == RAdd(kf.beta, RMul(K, residual))
     IN kf' = [kf EXCEPT !.beta = beta,
                         !.P = RMul(RSub(RInt(1), RMul(K, x)), P_pred),
                         !.betas = [@ EXCEPT ![kf.i + 1] = beta],
                         !.i = @ + 1]
  /\ KfUnchanged

\* hedge_ratios = pd.Series(betas, ...); spreads = p1 - hedge_ratios * p2
KfFinish ==
  /\ kf.pc = "loop"
  /\ kf.i = Len(kf.aligned)
  /\ kf' = [kf EXCEPT !.pc = "done", !.hedge_ratios = kf.betas,
                      !.spreads = [k \in 1..Len(kf.aligned) |->
                                     RSub(RInt(kf.aligned[k][1]),
                                          RMul(kf.betas[k], RInt(kf.aligned[k][2])))]]
  /\ KfUnchanged

NextKalman ==
  \/ KfBegin
  \/ KfStep
  \/ KfFinish

(***************************************************************************)
(* AnalyticsEngine.compute_zscore, called on its own                       *)
(***************************************************************************)
ZsValues == {0, 1, 2}
ZsWindows == {2, 3}
ZsSeries == UNION {[1..n -> ZsValues] : n \in 0..MaxSeries}

\* if len(series) < window: return pd.Series(dtype=float); else the rolling
\* z-score
CallComputeZScore(series, window) ==
  IF Len(series) < window THEN <<>> ELSE ComputeZScore(series, window)

\* series with the observation at position j replaced by v
Changed(series, j, v) == [k \in 1..Len(series) |-> IF k = j THEN v ELSE series[k]]

ZsUnchanged == UNCHANGED <<pipeVars, alertVars, btVars, storeVars, lockVars, wkVars, cl_seen, kf, an>>

\* zscore = AnalyticsEngine.compute_zscore(series, window)
ZsRun ==
  /\ zs.pc = "start"
  /\ zs' = [zs EXCEPT !.pc = "again", !.out = CallComputeZScore(zs.series, zs.window)]
  /\ ZsUnchanged

\* the same call on the changed series
ZsRerun ==
  /\ zs.pc = "again"
  /\ zs' = [zs EXCEPT !.pc = "done", !.out_other = CallComputeZScore(zs.other, zs.window)]
  /\ ZsUnchanged

NextZScore ==
  \/ ZsRun
  \/ ZsRerun

(***************************************************************************)
(* The length tests of AnalyticsEngine and MeanReversionBacktest.run.  A   *)
(* call ends with "empty" ({} or an empty series), with "value" or with    *)
(* "raise", an exception that reaches the caller.  lib_ok = FALSE: the     *)
(* library call inside a try block raises, which is caught and logged.     *)
(***************************************************************************)
AnFunctions ==
  {"compute_price_stats", "compute_ols_regression", "compute_robust_regression",
   "compute_zscore", "compute_adf_test", "compute_rolling_correlation",
   "compute_kalman_hedge_ratio", "run"}
AnWindows == {3, 10}

\* a series of n prices, with a NaN at the front or at the back
SeriesOf(n, gap) ==
  [k \in 1..n |-> IF (gap = "front" /\ k = 1) \/ (gap = "back" /\ k = n) THEN NaN ELSE 1]
AnSeries == {SeriesOf(n, gap) : n \in 0..MaxPoints, gap \in {"none", "front", "back"}}

\* pd.DataFrame({'a': s1, 'b': s2}): the rows on the union of the indexes
Frame(s1, s2) ==
  [k \in 1..(IF Len(s1) > Len(s2) THEN Len(s1) ELSE Len(s2)) |->
     <<IF k <= Len(s1) THEN s1[k] ELSE NaN, IF k <= Len(s2) THEN s2[k] ELSE NaN>>]

\* if len(...) < least:
TooFewNever(n, least) == FALSE
TooFew(n, least) == n < least

AnDone(out) ==
  /\ an.pc = "start"
  /\ an' = [an EXCEPT !.pc = "done", !.out = out]
  /\ UNCHANGED <<pipeVars, alertVars, btVars, storeVars, lockVars, wkVars, cl_seen, kf, zs>>

\* compute_price_stats(prices); prices.iloc[-1] needs one price
AnPriceStats ==
  /\ an.fn = "compute_price_stats"
  /\ AnDone(IF TooFew(Len(an.s1), 2) THEN "empty"
            ELSE IF Len(an.s1) = 0 THEN "raise" ELSE "value")

\* compute_ols_regression(y, x)
AnOls(lib_ok) ==
  /\ an.fn = "compute_ols_regression"
  /\ AnDone(IF TooFew(Len(an.s1), 2) \/ TooFew(Len(an.s2), 2) \/ Len(an.s1) # Len(an.s2)
              THEN "empty"
            ELSE IF TooFew(Len(Aligned(Frame(an.s1, an.s2))), 2) THEN "empty"
            ELSE IF lib_ok THEN "value" ELSE "empty")

\* compute_robust_regression(y, x, method)
AnRobust(lib_ok) ==
  /\ an.fn = "compute_robust_regression"
  /\ AnDone(IF TooFew(Len(an.s1), 2) \/ TooFew(Len(an.s2), 2) \/ Len(an.s1) # Len(an.s2)
              THEN "empty"
            ELSE IF TooFew(Len(Aligned(Frame(an.s1, an.s2))), 2) THEN "empty"
            ELSE IF lib_ok THEN "value" ELSE "empty")

\* compute_zscore(series, window); without the test the rolling result has
\* the length of the series
AnZScore ==
  /\ an.fn = "compute_zscore"
  /\ AnDone(IF TooFew(Len(an.s1), an.window) THEN "empty"
            ELSE IF ComputeZScore(an.s1, an.window) = <<>> THEN "empty" ELSE "value")

\* compute_adf_test(series)
AnAdf(lib_ok) ==
  /\ an.fn = "compute_adf_test"
  /\ AnDone(IF TooFew(Len(an.s1), 10) THEN "empty"
            ELSE IF lib_ok THEN "value" ELSE "empty")

\* compute_rolling_correlation(series1, series2, window)
AnRollingCorrelation ==
  /\ an.fn = "compute_rolling_correlation"
  /\ AnDone(IF Len(an.s1) = 0 \/ Len(an.s2) = 0 THEN "empty"
            ELSE IF TooFew(Len(Aligned(Frame(an.s1, an.s2))), an.window) THEN "empty"
            ELSE IF Aligned(Frame(an.s1, an.s2)) = <<>> THEN "empty" ELSE "value")

\* compute_kalman_hedge_ratio(prices1, prices2); betas[0] = beta needs n > 0
AnKalman ==
  /\ an.fn = "compute_kalman_hedge_ratio"
  /\ AnDone(IF TooFew(Len(an.s1), 2) \/ TooFew(Len(an.s2), 2) THEN "empty"
            ELSE IF TooFew(Len(Aligned(Frame(an.s1, an.s2))), 2) THEN "empty"
            ELSE IF Len(Aligned(Frame(an.s1, an.s2))) = 0 THEN "raise" ELSE "value")

\* MeanReversionBacktest.run(spread, ..., window); past the test the result
\* is a dict with total_trades
AnBacktest ==
  /\ an.fn = "run"
  /\ AnDone(IF TooFew(Len(an.s1), an.window) THEN "empty" ELSE "value")

NextFewObs ==
  \/ AnPriceStats
  \/ \E lib_ok \in BOOLEAN : AnOls(lib_ok)
  \/ \E lib_ok \in BOOLEAN : AnRobust(lib_ok)
  \/ AnZScore
  \/ \E lib_ok \in BOOLEAN : AnAdf(lib_ok)
  \/ AnRollingCorrelation
  \/ AnKalman
  \/ AnBacktest

NextLife ==
  \/ Start
  \/ StartRunning
  \/ Stop
  \/ \E w \in WorkerIds : WLoop(w)
  \/ \E w \in WorkerIds : WWake(w)
  \/ \E w \in WorkerIds : WLock(w)
  \/ \E w \in WorkerIds : WCopy(w)
  \/ \E w \in WorkerIds : WRelease(w)
  \/ \E g \in Gens : ALoop(g)
  \/ \E g \in Gens : AWake(g)
  \/ \E g \in Gens : ACheck(g)

NextBuf ==
  \/ Start
  \/ Stop
  \/ \E w \in WorkerIds : WLoop(w)
  \/ \E w \in WorkerIds : WWake(w)
  \/ \E w \in WorkerIds : WLock(w)
  \/ \E w \in WorkerIds : WCopy(w)
  \/ \E w \in WorkerIds : WRelease(w)
  \/ \E w \in WorkerIds : WResample(w)
  \/ \E g \in Gens : CConnect(g)
  \/ \E g \in Gens : COpen(g)
  \/ \E g \in Gens, t \in TickSet, ok \in BOOLEAN : CMessage(g, t, ok)
  \/ \E g \in Gens : TickPush(g)

NextClient ==
  \/ Start
  \/ Stop
  \/ \E g \in Gens : CConnect(g)
  \/ \E g \in Gens : COpen(g)
  \/ \E g \in Gens, t \in TickSet, ok \in BOOLEAN : CMessage(g, t, ok)
  \/ \E g \in Gens : TickPush(g)
  \/ \E g \in Gens : CDisconnect(g)
  \/ \E g \in Gens : COnClose(g)
  \/ \E g \in Gens : CReconnect(g)

IdleBacktest ==
  /\ bt_pc = "off" /\ bt_spread = <<>> /\ bt_window = 0 /\ bt_entry = 0
  /\ bt_exit = 0 /\ bt_zscore = <<>> /\ bt_i = 0 /\ bt_position = 0
  /\ bt_trades = <<>> /\ bt_equity_curve = <<>> /\ bt_current_equity = 0
  /\ bt_entries = 0 /\ bt_result = <<>>

InitLife ==
  /\ InitPipe /\ startsLeft = MaxStarts /\ ticksLeft = 0
  /\ InitAlert /\ IdleCalls /\ IdleWorkers /\ IdleFn /\ IdleBacktest /\ IdleStore

InitBuf ==
  /\ InitPipe /\ startsLeft = 1 /\ ticksLeft = MaxTicks
  /\ InitAlert /\ IdleCalls /\ IdleWorkers /\ IdleFn /\ IdleBacktest /\ IdleStore

InitClient ==
  /\ InitPipe /\ startsLeft = MaxStarts /\ ticksLeft = LifeTicks
  /\ InitAlert /\ IdleCalls /\ IdleWorkers /\ IdleFn /\ IdleBacktest /\ IdleStore

InitAlertEngine ==
  /\ InitPipe /\ startsLeft = 0 /\ ticksLeft = 0
  /\ InitAlert /\ IdleCalls /\ IdleWorkers /\ IdleFn /\ IdleBacktest /\ IdleStore

\* DataProcessor life cycle: start, stop and the periodic workers
Spec == InitLife /\ [][NextLife]_vars

\* ingestion into the tick buffers and the resample workers' snapshots
SpecBuf == InitBuf /\ [][NextBuf]_vars

\* DataProcessor.start/stop and the WebSocket client threads
SpecClient == InitClient /\ [][NextClient]_vars

\* AlertManager
SpecAlert == InitAlertEngine /\ [][NextAlert]_vars

InitBacktestRun ==
  /\ InitPipe /\ startsLeft = 0 /\ ticksLeft = 0
  /\ InitAlert /\ IdleCalls /\ IdleWorkers /\ IdleFn /\ InitBacktest /\ IdleStore

\* MeanReversionBacktest.run
SpecBacktest == InitBacktestRun /\ [][NextBacktest]_vars

InitResample ==
  /\ InitPipe /\ startsLeft = 0 /\ ticksLeft = 0
  /\ InitAlert /\ IdleCalls /\ IdleWorkers /\ IdleFn /\ IdleBacktest
  /\ rs_pc = "start"
  /\ rs_ticks \in SampleFrames
  /\ rs_tf \in DOMAIN TIMEFRAMES
  /\ rs_bars = <<>>
  /\ db_bars = [tf \in DOMAIN TIMEFRAMES |-> <<>>]
  /\ db_ids = [tf \in DOMAIN TIMEFRAMES |-> 0]
  /\ q_result = NoResult
  /\ storeLeft = 0

\* one snapshot resampled and stored, twice
SpecResample == InitResample /\ [][NextResample]_vars

InitStore ==
  /\ InitPipe /\ startsLeft = 0 /\ ticksLeft = 0
  /\ InitAlert /\ IdleCalls /\ IdleWorkers /\ IdleFn /\ IdleBacktest
  /\ rs_pc = "off" /\ rs_ticks = <<>> /\ rs_tf = "1s" /\ rs_bars = <<>>
  /\ db_bars = [tf \in DOMAIN TIMEFRAMES |-> <<>>]
  /\ db_ids = [tf \in DOMAIN TIMEFRAMES |-> 0]
  /\ q_result = NoResult
  /\ storeLeft = MaxInserts

\* the bar tables: insert_bars and get_bars
SpecStore == InitStore /\ [][NextStore]_vars

\* resample_ticks, insert_bars and get_bars with any timeframe name
SpecTimeframe == InitStore /\ [][NextTimeframe]_vars

InitTicks ==
  /\ InitPipe /\ startsLeft = 0 /\ ticksLeft = MaxTicks
  /\ InitAlert /\ IdleCalls /\ IdleWorkers /\ IdleFn /\ IdleBacktest /\ IdleStore

\* the table ticks: insert_tick and get_ticks
SpecTicks == InitTicks /\ [][NextTicks]_vars

InitRestart ==
  /\ InitPipe /\ startsLeft = MaxStarts /\ ticksLeft = LifeTicks
  /\ InitAlert /\ IdleCalls /\ IdleBacktest /\ IdleWorkers /\ IdleFn
  /\ rs_pc = "off" /\ rs_ticks = <<>> /\ rs_tf = "1s" /\ rs_bars = <<>>
  /\ db_bars = [tf \in DOMAIN TIMEFRAMES |-> <<>>]
  /\ db_ids = [tf \in DOMAIN TIMEFRAMES |-> 0]
  /\ q_result = NoResult
  /\ storeLeft = MaxInserts

\* start, stop and start again with the workers' whole cycles
SpecRestart == InitRestart /\ [][NextRestart]_vars

InitRebar ==
  /\ InitPipe /\ startsLeft = 1 /\ ticksLeft = MaxTicks
  /\ InitAlert /\ IdleCalls /\ IdleBacktest /\ IdleWorkers /\ IdleFn
  /\ rs_pc = "off" /\ rs_ticks = <<>> /\ rs_tf = "1s" /\ rs_bars = <<>>
  /\ db_bars = [tf \in DOMAIN TIMEFRAMES |-> <<>>]
  /\ db_ids = [tf \in DOMAIN TIMEFRAMES |-> 0]
  /\ q_result = NoResult
  /\ storeLeft = MaxInserts

\* successive resample cycles of a timeframe over a bounded buffer
SpecRebar == InitRebar /\ [][NextRebar]_vars

InitWorkers ==
  /\ InitPipe /\ startsLeft = 1 /\ ticksLeft = LifeTicks
  /\ InitAlert /\ IdleCalls /\ IdleBacktest
  /\ rs_pc = "off" /\ rs_ticks = <<>> /\ rs_tf = "1s" /\ rs_bars = <<>>
  /\ db_bars = [tf \in DOMAIN TIMEFRAMES |-> <<>>]
  /\ db_ids = [tf \in DOMAIN TIMEFRAMES |-> 0]
  /\ q_result = NoResult
  /\ storeLeft = MaxInserts
  /\ wk_log = <<>>
  /\ a_idx = [g \in Gens |-> 0]
  /\ a_out = [g \in Gens |-> <<>>]
  /\ failsLeft = MaxFails
  /\ IdleFn

\* the periodic workers of one run of the pipeline, with failing steps
SpecWorkers == InitWorkers /\ [][NextWorkers]_vars

InitIngest ==
  /\ InitPipe /\ startsLeft = 1 /\ ticksLeft = MaxEvents
  /\ InitAlert /\ IdleCalls /\ IdleWorkers /\ IdleFn /\ IdleBacktest /\ IdleStore

\* the message handler of the client on well-formed and malformed messages
SpecIngest == InitIngest /\ [][NextIngest]_vars

InitKalman ==
  /\ InitPipe /\ startsLeft = 0 /\ ticksLeft = 0
  /\ InitAlert /\ IdleCalls /\ IdleWorkers /\ IdleBacktest /\ IdleStore
  /\ cl_seen = <<>> /\ zs = [pc |-> "off"] /\ an = [pc |-> "off"]
  /\ kf \in {KfCall(f, b, q, m) : f \in KfFrames, b \in KfBetas,
                                   q \in KfProcessVariances, m \in KfMeasurementVariances}

\* AnalyticsEngine.compute_kalman_hedge_ratio on every input of the bounds
SpecKalman == InitKalman /\ [][NextKalman]_vars

InitZScore ==
  /\ InitPipe /\ startsLeft = 0 /\ ticksLeft = 0
  /\ InitAlert /\ IdleCalls /\ IdleWorkers /\ IdleBacktest /\ IdleStore
  /\ cl_seen = <<>> /\ kf = [pc |-> "off"] /\ an = [pc |-> "off"]
  /\ zs \in {[pc |-> "start", series |-> sr, window |-> w, j |-> j,
              other |-> Changed(sr, j, v), out |-> <<>>, out_other |-> <<>>] :
               sr \in ZsSeries, w \in ZsWindows, j \in 1..MaxSeries, v \in ZsValues}

\* AnalyticsEngine.compute_zscore on a series and on a copy changed at one index
SpecZScore == InitZScore /\ [][NextZScore]_vars

InitFewObs ==
  /\ InitPipe /\ startsLeft = 0 /\ ticksLeft = 0
  /\ InitAlert /\ IdleCalls /\ IdleWorkers /\ IdleBacktest /\ IdleStore
  /\ cl_seen = <<>> /\ kf = [pc |-> "off"] /\ zs = [pc |-> "off"]
  /\ an \in {[pc |-> "start", fn |-> f, s1 |-> s1, s2 |-> s2, window |-> w, out |-> "none"] :
               f \in AnFunctions, s1 \in AnSeries, s2 \in AnSeries, w \in AnWindows}

\* every analytics function and the backtest on short and on long input
SpecFewObs == InitFewObs /\ [][NextFewObs]_vars

\* AlertManager with rules whose conditions are any Python expression
SpecSandbox == InitAlertEngine /\ [][NextSandbox]_vars

\* AlertManager: rules added, removed and updated in any attribute
SpecAdmin == InitAlertEngine /\ [][NextAdmin]_vars

InitEngine ==
  /\ InitPipe /\ startsLeft = 0 /\ ticksLeft = 0
  /\ InitAlert /\ IdleBacktest /\ IdleStore
  /\ callback \in CallbackKinds
  /\ call = [t \in Threads |-> CallIdle]
  /\ cycle = CycleIdle
  /\ IdleWorkers /\ IdleFn

\* AlertManager called from several threads, with any callback
SpecEngine == InitEngine /\ [][NextEngine]_vars

\* the same, with every thread that can take a step taking one in the end:
\* the thread in check_alerts and the threads that wait for or hold the lock
SpecEngineFair ==
  /\ InitEngine /\ [][NextEngine]_vars
  /\ WF_vars(CheckThread)
  /\ \A t \in Callers : WF_vars(Acquire(t) \/ Body(t))


(***************************************************************************)
(* The backtest over a given z-score series: compute_zscore is taken to    *)
(* return any series over PathVals of the length of the spread, so that    *)
(* the steps can be followed along a stated z-score path.                  *)
(***************************************************************************)
\* the z-score of integer value k
IntZ(k) == [n |-> 2 * k, d |-> 2, w |-> 2]
PathVals == {-3, 0, 3}
PathEntries == {2}
PathExits == {0, 1}
PathSpreads ==
  UNION {{[k \in 1..n |-> 0], [k \in 1..n |-> k], [k \in 1..n |-> n - k]} :
           n \in 0..MaxLen}

InitBacktestPath ==
  /\ InitPipe /\ startsLeft = 0 /\ ticksLeft = 0
  /\ InitAlert /\ IdleCalls /\ IdleWorkers /\ IdleFn
  /\ bt_pc = "start"
  /\ bt_spread \in PathSpreads
  /\ bt_window \in Windows
  /\ bt_entry \in PathEntries
  /\ bt_exit \in PathExits
  /\ bt_zscore = <<>>
  /\ bt_i = 0 /\ bt_position = 0 /\ bt_trades = <<>>
  /\ bt_equity_curve = <<>> /\ bt_current_equity = 0 /\ bt_entries = 0
  /\ bt_result = <<>>
  /\ IdleStore

\* run: if len(spread) < window: return {}; zscore = the given series
BtBeginPath ==
  /\ bt_pc = "start"
  /\ IF Len(bt_spread) < bt_window
       THEN /\ bt_pc' = "done"
            /\ bt_result' = [empty |-> TRUE]
            /\ UNCHANGED <<bt_zscore, bt_i, bt_current_equity>>
       ELSE /\ bt_pc' = "loop"
            /\ bt_zscore' \in [1..Len(bt_spread) -> {IntZ(k) : k \in PathVals}]
            /\ bt_i' = bt_window
            /\ bt_current_equity' = StartCapital
            /\ UNCHANGED bt_result
  /\ UNCHANGED <<bt_position, bt_trades, bt_equity_curve, bt_entries>>
  /\ BtUnchanged

NextBacktestPath ==
  \/ BtBeginPath
  \/ BtStep
  \/ BtFinish

SpecBacktestPath == InitBacktestPath /\ [][NextBacktestPath]_vars

(***************************************************************************)
(* Tick buffers (SpecBuf)                                                  *)
(***************************************************************************)
\* C1: each symbol's buffer never exceeds its capacity and holds exactly the
\* last min(n, capacity) of the n ticks pushed to it, in arrival order,
\* whatever their timestamps: a push on a full buffer evicts the oldest
\* entry and no push is rejected.
C1_BufferHoldsLastPushed ==
  \A s \in SymbolSet :
    /\ Len(tick_buffers[s]) <= BufCap
    /\ tick_buffers[s] = LastN(pushed[s], BufCap)

\* a buffer that has evicted a tick and holds ticks out of timestamp order
C1_Witness ==
  \E s \in SymbolSet :
    /\ Len(pushed[s]) > BufCap
    /\ \E i \in 1..(Len(tick_buffers[s]) - 1) :
         tick_buffers[s][i].timestamp > tick_buffers[s][i + 1].timestamp

\* C2: while a resample worker copies the buffers, what it has copied so far
\* equals the present contents of those buffers, which are the pushed ticks
\* that FIFO eviction has not removed, in order: the finished snapshot is
\* the buffers at one instant, with no tick lost, duplicated or reordered.
C2_SnapshotIsBufferContents ==
  \A w \in WorkerIds :
    wpc[w] = "copy" =>
      /\ all_ticks[w] = ConcatBuffers(tick_buffers, widx[w])
      /\ all_ticks[w] =
           ConcatBuffers([s \in SymbolSet |-> LastN(pushed[s], BufCap)], widx[w])

\* a complete snapshot of several ticks taken while a push waits for the lock
C2_Witness ==
  \E w \in WorkerIds, g \in Gens :
    /\ wpc[w] = "copy"
    /\ widx[w] = Len(Symbols)
    /\ Len(all_ticks[w]) >= 2
    /\ cpc[g] = "push"
    /\ cl_tick[g].symbol \in SymbolSet

(***************************************************************************)
(* Life cycle (Spec, SpecClient)                                           *)
(***************************************************************************)
\* C3: a periodic worker that was running when stop() was called on the
\* running pipeline begins no further cycle: at its next reading of the
\* running flag (the while test, or the test after the sleep) it leaves its
\* loop, for every sequence of start() and stop().
C3_StoppedWorkersExit ==
  [][ /\ \A w \in WorkerIds :
           stopSeen[w[1]] =>
             /\ (wpc[w] = "loop" => wpc'[w] \in {"loop", "exited"})
             /\ (wpc[w] = "sleep" => wpc'[w] \in {"sleep", "exited"})
      /\ \A g \in Gens :
           stopSeen[g] =>
             /\ (apc[g] = "loop" => apc'[g] \in {"loop", "exited"})
             /\ (apc[g] = "sleep" => apc'[g] \in {"sleep", "loop"}) ]_vars

\* C4: once stop() has returned, the client's running flag is false and it
\* holds no open connection, now or later.
C4_StopDisconnects ==
  \A g \in Gens :
    cl_stopped[g] => (~cl_running[g] /\ cl_ws[g] # "open")

(***************************************************************************)
(* Alert engine (SpecAlert)                                                *)
(***************************************************************************)
\* the rule check_alerts is about to process
CurrentRule == rules[chk.idx]
OtherRulesSame == \A k \in 1..Len(rules) : k # chk.idx => rules'[k] = rules[k]
NoTrigger ==
  /\ rules' = rules
  /\ active_alerts' = active_alerts
  /\ all_events' = all_events
  /\ cb_calls' = cb_calls
\* the symbol filter of a rule lets the context through
SymbolMatches(rule, ctx) ==
  rule.symbol = "none" \/ ("symbol" \in DOMAIN ctx /\ ctx["symbol"] = rule.symbol)

\* C5: in check_alerts, with the engine lock held, a rule that evaluates to
\* true gets trigger_count + 1 and last_triggered set, exactly one event
\* {rule_id, name, symbol, timestamp, context} is appended to the history
\* and the callback is called exactly once with (rule, context); a rule that
\* evaluates to false changes nothing and the callback is not called.
C5_TriggerEffects ==
  [][ CheckRule =>
        /\ alock = "check" /\ alock' = "check"
        /\ Len(rules') = Len(rules) /\ OtherRulesSame
        /\ IF RuleEvaluate(CurrentRule, chk.ctx) = "true"
             THEN /\ rules'[chk.idx].trigger_count = CurrentRule.trigger_count + 1
                  /\ rules'[chk.idx].last_triggered = now
                  /\ rules'[chk.idx].last_triggered > CurrentRule.last_triggered
                  /\ rules'[chk.idx] =
                       [CurrentRule EXCEPT !.trigger_count = rules'[chk.idx].trigger_count,
                                           !.last_triggered = rules'[chk.idx].last_triggered]
                  /\ Len(all_events') = Len(all_events) + 1
                  /\ SubSeq(all_events', 1, Len(all_events)) = all_events
                  /\ Last(all_events').rule_id = CurrentRule.rule_id
                  /\ Last(all_events').name = CurrentRule.name
                  /\ Last(all_events').symbol =
                       (IF "symbol" \in DOMAIN chk.ctx THEN chk.ctx["symbol"] ELSE "N/A")
                  /\ Last(all_events').timestamp >= now
                  /\ Last(all_events').context = chk.ctx
                  /\ Last(active_alerts') = Last(all_events')
                  /\ Len(cb_calls') = Len(cb_calls) + 1
                  /\ SubSeq(cb_calls', 1, Len(cb_calls)) = cb_calls
                  /\ Last(cb_calls') = <<rules'[chk.idx], chk.ctx>>
             ELSE NoTrigger ]_vars

\* one cycle in which the first rule triggered for the second time and the
\* second rule, enabled, evaluated to false
C5_Witness ==
  /\ chk.pc = "rules"
  /\ chk.idx = 3
  /\ rules[1].trigger_count = 2
  /\ rules[1].last_triggered = now - 2
  /\ rules[2].enabled /\ rules[2].trigger_count = 0
  /\ Len(cb_calls) = 2

\* C6: a disabled rule never triggers, a rule with a symbol filter never
\* triggers for a context of another symbol, a rule without a filter is
\* decided by its condition alone for every symbol; disabling a rule keeps
\* it in the rule mapping and enabling it again makes it live.
C6_DisabledAndFiltered ==
  [][ /\ CheckRule =>
           /\ (~CurrentRule.enabled => NoTrigger)
           /\ (~SymbolMatches(CurrentRule, chk.ctx) => NoTrigger)
           /\ (CurrentRule.enabled /\ CurrentRule.symbol = "none" =>
                 (NoTrigger <=> EvalCondition(CurrentRule.condition, chk.ctx) # "true"))
           /\ [k \in 1..Len(rules') |-> rules'[k].key] =
                [k \in 1..Len(rules) |-> rules[k].key]
      /\ \A id \in RuleIds, en \in BOOLEAN :
           UpdateRule(id, "enabled", en) =>
             /\ [k \in 1..Len(rules') |-> rules'[k].key] =
                  [k \in 1..Len(GetRules) |-> GetRules[k].key]
             /\ \A k \in 1..Len(rules) :
                  rules'[k] = IF rules[k].key = id
                                THEN [rules[k] EXCEPT !.enabled = en]
                                ELSE rules[k] ]_vars

\* a rule that triggered earlier, is disabled now, was passed over in this
\* cycle although its condition holds for the context, and is still there
C6_Witness ==
  /\ chk.pc = "rules"
  /\ \E i \in 1..Len(rules) :
       /\ chk.idx > i
       /\ ~rules[i].enabled
       /\ rules[i].trigger_count = 1
       /\ SymbolMatches(rules[i], chk.ctx)
       /\ EvalCondition(rules[i].condition, chk.ctx) = "true"
       /\ rules[i].last_triggered > 0

\* C7: a rule whose condition raises is treated as not triggered (nothing
\* changes, no callback), the cycle goes on to the next rule with the lock
\* held, and check_alerts never raises.
C7_EvaluationErrorsContained ==
  /\ [](~chk.raised)
  /\ [][ CheckRule /\ CurrentRule.enabled /\ SymbolMatches(CurrentRule, chk.ctx)
           /\ EvalCondition(CurrentRule.condition, chk.ctx) = "error" =>
             /\ NoTrigger
             /\ chk'.pc = "rules" /\ chk'.idx = chk.idx + 1
             /\ alock' = "check" ]_vars

\* a cycle whose first rule raised and whose second rule then triggered
C7_Witness ==
  /\ chk.pc = "rules"
  /\ chk.idx = 3
  /\ rules[1].enabled /\ SymbolMatches(rules[1], chk.ctx)
  /\ EvalCondition(rules[1].condition, chk.ctx) = "error"
  /\ rules[1].trigger_count = 0
  /\ rules[2].last_triggered = now - 2
  /\ all_events # <<>>
  /\ Last(all_events).rule_id = rules[2].rule_id
  /\ Last(all_events).context = chk.ctx

\* C8: the history never holds more than its capacity; it is exactly the
\* most recent min(n, capacity) of the n events triggered so far, in trigger
\* order, and it changes only by an append at the end, with the oldest
\* event dropped from the front on overflow.
C8_HistoryCapped ==
  /\ [](/\ Len(active_alerts) <= HistCap
        /\ active_alerts = LastN(all_events, HistCap))
  /\ [][ \/ active_alerts' = active_alerts
         \/ \E e \in {Last(all_events')} :
              \/ active_alerts' = Append(active_alerts, e)
              \/ /\ Len(active_alerts) = HistCap
                 /\ active_alerts' = Append(Tail(active_alerts), e) ]_vars

\* the history is full and has dropped events
C8_Witness ==
  /\ Len(all_events) >= HistCap + 2
  /\ Len(active_alerts) = HistCap

C10_ForcedClose ==
  (bt_pc = "done" /\ "trades" \in DOMAIN bt_result) =>
    /\ \A k \in 1..Len(bt_result.trades) :
         {"exit_price", "exit_time", "pnl"} \subseteq DOMAIN bt_result.trades[k]
    /\ bt_result.total_trades = Len(bt_result.trades)
    /\ bt_result.total_trades = bt_entries
    /\ bt_result.trades # <<>> =>
         /\ Last(bt_result.equity_curve) = bt_result.final_equity
         /\ bt_result.final_equity =
              StartCapital
                + SumSeq([k \in 1..Len(bt_result.trades) |-> bt_result.trades[k].pnl])
    /\ bt_position # 0 =>
         /\ Last(bt_result.trades).exit_price = Last(bt_spread)
         /\ Last(bt_result.trades).exit_time = Len(bt_spread) - 1
         /\ Last(bt_result.trades).pnl =
              (IF bt_position = 1 THEN 1 ELSE -1) * UnitSize
                * (Last(bt_spread) - Last(bt_result.trades).entry_price)

\* a run that ended with a position open for more than one step, closed by
\* force at a gain or a loss
C10_Witness ==
  /\ bt_pc = "done"
  /\ bt_position # 0
  /\ bt_trades # <<>>
  /\ Last(bt_trades).entry_time < Len(bt_spread) - 2
  /\ Last(bt_trades).pnl # 0
  /\ bt_result.final_equity # StartCapital

\* pnl of the trades closed so far
ClosedPnls(trades) ==
  LET closed == SelectSeq(trades, LAMBDA t : "pnl" \in DOMAIN t)
  IN [k \in 1..Len(closed) |-> closed[k].pnl]
\* pnl a trade must have: (exit - entry) * 100 for a long, reversed for a short
PnlOf(t) ==
  IF t.type = "LONG" THEN (t.exit_price - t.entry_price) * UnitSize
  ELSE (t.entry_price - t.exit_price) * UnitSize

\* C11: equity starts at 100000 and changes only where a trade is closed:
\* the pnl of a closed trade is (exit - entry) * 100 for a long and
\* (entry - exit) * 100 for a short, equity after = equity before + pnl, so
\* equity is always 100000 + the pnl of the closed trades, the result has
\* final_equity = 100000 + total_pnl = 100000 + sum of all pnl, and the
\* equity curve moves only at a step where a trade was closed.
C11_EquityAccounting ==
  /\ [](bt_pc \in {"loop", "done"} /\ bt_result # [empty |-> TRUE] =>
          /\ bt_current_equity = StartCapital + SumSeq(ClosedPnls(bt_trades))
          /\ \A k \in 1..Len(bt_trades) :
               "pnl" \in DOMAIN bt_trades[k] => bt_trades[k].pnl = PnlOf(bt_trades[k])
          /\ \A k \in 1..Len(bt_equity_curve) :
               bt_equity_curve[k] # (IF k = 1 THEN StartCapital ELSE bt_equity_curve[k - 1])
                 => \E j \in 1..Len(bt_trades) :
                      /\ "exit_time" \in DOMAIN bt_trades[j]
                      /\ bt_trades[j].exit_time = bt_window + k - 1
          /\ (bt_pc = "done" /\ bt_trades # <<>>) =>
               /\ bt_result.final_equity = StartCapital + bt_result.total_pnl
               /\ bt_result.total_pnl =
                    SumSeq([k \in 1..Len(bt_result.trades) |-> bt_result.trades[k].pnl]))
  /\ [][ /\ BtBegin /\ bt_pc' = "loop" => bt_current_equity' = StartCapital
         /\ BtStep =>
              /\ bt_equity_curve' = Append(bt_equity_curve, bt_current_equity')
              /\ IF bt_position # 0 /\ bt_position' = 0
                   THEN bt_current_equity' = bt_current_equity + Last(bt_trades').pnl
                   ELSE bt_current_equity' = bt_current_equity ]_vars

\* a finished run with a long and a short trade, the short one closed at a
\* gain or a loss, with the equity curve moving in between
C11_Witness ==
  /\ bt_pc = "done"
  /\ \E j, k \in 1..Len(bt_trades) :
       /\ bt_trades[j].type = "LONG"
       /\ bt_trades[k].type = "SHORT" /\ bt_trades[k].pnl # 0
  /\ \E k \in 2..Len(bt_equity_curve) : bt_equity_curve[k] # bt_equity_curve[k - 1]

\* the z-score series is 0 everywhere except one -3 and, later and not
\* adjacent, one +3, both among the steps the loop processes, and ends in 0
SymmetricPath ==
  \E a, b \in (bt_window + 1)..Len(bt_zscore) :
    /\ a + 1 < b /\ b < Len(bt_zscore)
    /\ bt_zscore[a] = IntZ(-3)
    /\ bt_zscore[b] = IntZ(3)
    /\ \A k \in 1..Len(bt_zscore) : k \notin {a, b} => bt_zscore[k] = IntZ(0)

\* C12: a run on a spread of at least window values returns an equity curve
\* of exactly len(spread) - window points, one per processed step; and along
\* a z-score path 0,...,-3,...,0,...,+3,...,0 with entry 2 and exit 0
\* exactly two trades are made, a long one followed by a short one.
C12_CurveLengthAndSymmetricPath ==
  bt_pc = "done" =>
    /\ (bt_result = [empty |-> TRUE]) <=> (Len(bt_spread) < bt_window)
    /\ Len(bt_spread) >= bt_window =>
         /\ Len(bt_result.equity_curve) = Len(bt_spread) - bt_window
         /\ (SymmetricPath /\ bt_entry = 2 /\ bt_exit = 0) =>
              /\ Len(bt_result.trades) = 2
              /\ bt_result.total_trades = 2
              /\ bt_result.trades[1].type = "LONG"
              /\ bt_result.trades[2].type = "SHORT"
              /\ bt_result.trades[1].exit_time < bt_result.trades[2].entry_time

\* a finished run along a symmetric path
C12_Witness ==
  /\ bt_pc = "done"
  /\ bt_entry = 2 /\ bt_exit = 0
  /\ Len(bt_spread) >= bt_window
  /\ SymmetricPath
  /\ Len(bt_equity_curve) >= 4

(***************************************************************************)
(* Resampler (SpecResample)                                                *)
(***************************************************************************)
\* the resampler has run on rs_ticks
Resampled == rs_pc \in {"stored", "replayed"}
\* length of the interval of the timeframe in milliseconds
IntervalMs == TIMEFRAMES[rs_tf] * 1000
\* the ticks of a symbol with timestamp in [start, start + interval), in the
\* order in which they were given
Bucket(sy, start) ==
  SelectSeq(rs_ticks, LAMBDA r : /\ r.symbol = sy
                                 /\ start <= r.timestamp
                                 /\ r.timestamp < start + IntervalMs)
Earliest(rows) ==
  SelectSeq(rows, LAMBDA r : \A k \in 1..Len(rows) : r.timestamp <= rows[k].timestamp)
Latest(rows) ==
  SelectSeq(rows, LAMBDA r : \A k \in 1..Len(rows) : r.timestamp >= rows[k].timestamp)

\* C13: every bucket of the given ticks has a bar, and a bar's open is the
\* price of the earliest tick of its bucket, close that of the latest, high
\* the largest and low the smallest price, volume the sum of the sizes and
\* trade_count the number of ticks; of ticks with equal timestamps open
\* takes the first and close the last given.  Prices 100 then 105 with
\* sizes 1 and 2 in one minute give the 1m bar {100, 105, 100, 105, 3, 2}.
C13_BarAggregates ==
  Resampled =>
    /\ \A k \in 1..Len(rs_ticks) : \E j \in 1..Len(rs_bars) :
         /\ rs_bars[j].symbol = rs_ticks[k].symbol
         /\ rs_bars[j].timestamp <= rs_ticks[k].timestamp
         /\ rs_ticks[k].timestamp < rs_bars[j].timestamp + IntervalMs
    /\ \A j \in 1..Len(rs_bars) :
         LET bar == rs_bars[j]
             rows == Bucket(bar.symbol, bar.timestamp)
         IN /\ rows # <<>>
            /\ bar.open = Earliest(rows)[1].price
            /\ bar.close = Last(Latest(rows)).price
            /\ bar.high = MaxOf({rows[k].price : k \in 1..Len(rows)})
            /\ bar.low = MinOf({rows[k].price : k \in 1..Len(rows)})
            /\ bar.volume = SumSeq([k \in 1..Len(rows) |-> rows[k].size])
            /\ bar.trade_count = Len(rows)
    /\ (/\ rs_tf = "1m"
        /\ rs_ticks = <<[timestamp |-> 1000, symbol |-> "btcusdt", price |-> 100, size |-> 1],
                        [timestamp |-> 1500, symbol |-> "btcusdt", price |-> 105, size |-> 2]>>)
         => rs_bars = <<[timestamp |-> 0, symbol |-> "btcusdt", open |-> 100, high |-> 105,
                         low |-> 100, close |-> 105, volume |-> 3, trade_count |-> 2]>>

\* a bar of three ticks that were given out of time order, two of them with
\* the earliest timestamp and different prices
C13_Witness ==
  /\ Resampled
  /\ \E j \in 1..Len(rs_bars) :
       LET rows == Bucket(rs_bars[j].symbol, rs_bars[j].timestamp)
       IN /\ Len(rows) = 3
          /\ rows[1].timestamp > rows[2].timestamp
          /\ Len(Earliest(rows)) = 2
          /\ Earliest(rows)[1].price # Earliest(rows)[2].price
          /\ rs_bars[j].open # rows[1].price

\* low <= min(open, close) and high >= max(open, close)
Ordered(b) ==
  /\ b.low <= b.open /\ b.low <= b.close
  /\ b.high >= b.open /\ b.high >= b.close
  /\ b.low <= b.high

\* C14: for every tick sequence and timeframe every bar the resampler
\* produces has low <= min(open, close) and high >= max(open, close), hence
\* low <= high, and so has every row of the bar tables.
C14_BarOrdered ==
  /\ \A j \in 1..Len(rs_bars) : Ordered(rs_bars[j])
  /\ \A tf \in DOMAIN TIMEFRAMES : \A j \in 1..Len(db_bars[tf]) : Ordered(db_bars[tf][j])

\* a produced and stored bar whose high lies above both of its ends
C14_Witness ==
  /\ Resampled
  /\ \E j \in 1..Len(db_bars[rs_tf]) :
       LET b == db_bars[rs_tf][j] IN b.high > b.open /\ b.high > b.close
  /\ \E j \in 1..Len(rs_bars) : rs_bars[j].high > rs_bars[j].close

\* C15: every bar's timestamp is a multiple of the interval length in
\* milliseconds; a tick of timestamp t is counted in exactly one bar of its
\* symbol, the bar at floor(t / (L*1000)) * L*1000, whose interval
\* [start, start + L*1000) contains t; a bar counts ticks of its symbol only.
C15_BucketStart ==
  Resampled =>
    /\ \A j \in 1..Len(rs_bars) : rs_bars[j].timestamp % IntervalMs = 0
    /\ \A k \in 1..Len(rs_ticks) :
         LET t == rs_ticks[k].timestamp
             mine == {j \in 1..Len(rs_bars) :
                        /\ rs_bars[j].symbol = rs_ticks[k].symbol
                        /\ rs_bars[j].timestamp <= t
                        /\ t < rs_bars[j].timestamp + IntervalMs}
         IN /\ Cardinality(mine) = 1
            /\ \A j \in mine : rs_bars[j].timestamp = (t \div IntervalMs) * IntervalMs
    /\ \A j \in 1..Len(rs_bars) :
         rs_bars[j].trade_count =
           Cardinality({k \in 1..Len(rs_ticks) :
                          /\ rs_ticks[k].symbol = rs_bars[j].symbol
                          /\ rs_ticks[k].timestamp \div IntervalMs
                               = rs_bars[j].timestamp \div IntervalMs})
    /\ SumSeq([j \in 1..Len(rs_bars) |-> rs_bars[j].trade_count]) = Len(rs_ticks)

\* ticks of both symbols in one interval that does not start at 0, and a
\* tick that is not at the start of its interval
C15_Witness ==
  /\ Resampled
  /\ \E i, j \in 1..Len(rs_bars) :
       /\ rs_bars[i].symbol # rs_bars[j].symbol
       /\ rs_bars[i].timestamp = rs_bars[j].timestamp
       /\ rs_bars[i].timestamp > 0
  /\ \E k \in 1..Len(rs_ticks) : rs_ticks[k].timestamp % IntervalMs # 0

\* the (symbol, interval start) pairs that hold a tick
Populated ==
  {<<rs_ticks[k].symbol, (rs_ticks[k].timestamp \div IntervalMs) * IntervalMs>> :
     k \in 1..Len(rs_ticks)}

\* C16: the resampler emits a bar only for a (symbol, interval) that holds
\* a tick: every bar has trade_count >= 1, an empty interval between two
\* populated ones gets no bar, and no two bars have the same symbol and
\* interval start.
C16_NoEmptyBars ==
  Resampled =>
    /\ \A j \in 1..Len(rs_bars) :
         /\ rs_bars[j].trade_count >= 1
         /\ <<rs_bars[j].symbol, rs_bars[j].timestamp>> \in Populated
    /\ \A i, j \in 1..Len(rs_bars) :
         (rs_bars[i].symbol = rs_bars[j].symbol
            /\ rs_bars[i].timestamp = rs_bars[j].timestamp) => i = j
    /\ Len(rs_bars) = Cardinality(Populated)

\* two populated intervals of one symbol with an empty interval between
C16_Witness ==
  /\ Resampled
  /\ \E i, j \in 1..Len(rs_bars) :
       /\ rs_bars[i].symbol = rs_bars[j].symbol
       /\ rs_bars[j].timestamp >= rs_bars[i].timestamp + 2 * IntervalMs
       /\ <<rs_bars[i].symbol, rs_bars[i].timestamp + IntervalMs>> \notin Populated

(***************************************************************************)
(* Bar tables (SpecStore)                                                  *)
(***************************************************************************)
\* the bars a table holds, whatever their ids and row order
Content(table) == {DropId(<<table[k]>>)[1] : k \in 1..Len(table)}
KeyOf(b) == <<b.symbol, b.timestamp>>
\* of the bars of a frame, the last one of every key
LastOfKey(bars) ==
  {bars[k] : k \in {i \in 1..Len(bars) :
                      \A j \in (i + 1)..Len(bars) : KeyOf(bars[j]) # KeyOf(bars[i])}}
\* this step is a call of insert_bars that stored its frame
Stores == storeLeft' < storeLeft /\ q_result'.kind = "stored"

\* C17: insert_bars is an idempotent upsert keyed by symbol, timeframe and
\* interval start: a bar table never holds two rows of one (symbol,
\* timestamp); inserting a frame again leaves the stored bars as they
\* were; a bar inserted for a key that is present replaces it, the last bar
\* of a key wins, and the rows of other keys and the tables of the other
\* timeframes stay as they are.
C17_IdempotentUpsert ==
  /\ [](\A tf \in DOMAIN TIMEFRAMES : \A i, j \in 1..Len(db_bars[tf]) :
          KeyOf(db_bars[tf][i]) = KeyOf(db_bars[tf][j]) => i = j)
  /\ [][Stores =>
          LET tf == q_result'.timeframe
              bars == q_result'.bars
          IN /\ \A o \in DOMAIN TIMEFRAMES \ {tf} :
                  db_bars'[o] = db_bars[o] /\ db_ids'[o] = db_ids[o]
             /\ Content(db_bars'[tf]) =
                  {b \in Content(db_bars[tf]) :
                     \A k \in 1..Len(bars) : KeyOf(bars[k]) # KeyOf(b)}
                    \cup LastOfKey(bars)
             /\ q_result' = q_result => Content(db_bars'[tf]) = Content(db_bars[tf])]_vars

\* one frame of two bars was stored twice in a table: four ids were given
\* out and the table holds two rows
C17_Witness ==
  /\ q_result.kind = "stored"
  /\ Len(q_result.bars) = 2
  /\ Len(db_bars[q_result.timeframe]) = 2
  /\ db_ids[q_result.timeframe] = 4

(***************************************************************************)
(* Queries (SpecTicks, SpecStore)                                          *)
(***************************************************************************)
\* the table a finished query has read, without the id column
Queried ==
  IF q_result.kind = "ticks" THEN db_ticks ELSE DropId(db_bars[q_result.timeframe])
\* the rows of the table the query asks for: those of its symbol with
\* start_time <= timestamp <= end_time, for each bound that was given
Wanted ==
  {k \in 1..Len(Queried) :
     /\ Queried[k].symbol = q_result.symbol
     /\ q_result.start_time # None => Queried[k].timestamp >= q_result.start_time
     /\ q_result.end_time # None => Queried[k].timestamp <= q_result.end_time}
\* the number of rows the query is to return
WantedCount ==
  IF q_result.limit # None /\ q_result.limit < Cardinality(Wanted)
    THEN q_result.limit ELSE Cardinality(Wanted)

\* C18: get_ticks and get_bars return their rows in ascending order of
\* timestamp; the rows are rows of the requested symbol with timestamp in
\* [start_time, end_time] for whatever integer bounds were given; without a
\* limit these are all such rows, and with a limit L the L of them with the
\* largest timestamps.
C18_QueryRows ==
  q_result.kind \in {"ticks", "bars"} =>
    LET rows == q_result.rows
    IN /\ \A a, b \in 1..Len(rows) : a < b => rows[a].timestamp <= rows[b].timestamp
       /\ Len(rows) = WantedCount
       /\ \E f \in [1..Len(rows) -> Wanted] :
            /\ \A a, b \in 1..Len(rows) : a # b => f[a] # f[b]
            /\ \A a \in 1..Len(rows) : rows[a] = Queried[f[a]]
            /\ \A k \in Wanted \ Range(f), a \in 1..Len(rows) :
                 Queried[k].timestamp <= rows[a].timestamp

\* the same statement for the calls whose bounds and limit, where given,
\* are not 0
C18_QueryRowsNonZero ==
  (/\ q_result.kind \in {"ticks", "bars"}
   /\ q_result.start_time # 0 /\ q_result.end_time # 0 /\ q_result.limit # 0)
    => C18_QueryRows

(***************************************************************************)
(* AlertManager under concurrent callers (SpecEngine)                      *)
(***************************************************************************)
\* the method bodies that are being executed: the calls that hold the lock
\* and the evaluation cycle of check_alerts
Executing ==
  {<<t, "call">> : t \in {u \in Threads : call[u].pc = "in"}}
    \cup (IF chk.pc # "idle" THEN {<<"check", "cycle">>} ELSE {})

\* C19: the methods of one AlertManager are mutually exclusive: at most one
\* body is executed at a time; while check_alerts iterates, the rule
\* mapping keeps its keys, a rule changes only when the cycle triggers it
\* and the history only when the cycle records a trigger; and the cycle
\* evaluates the rules that were present when it took the lock, each once.
C19_MutualExclusion ==
  /\ [](/\ Cardinality(Executing) <= 1
        /\ chk.pc # "idle" =>
             /\ alock = "check"
             /\ cycle.snap = RuleKeys(rules)
             /\ cycle.evald =
                  SubSeq(cycle.snap, 1, IF chk.pc = "callback" THEN chk.idx ELSE chk.idx - 1))
  /\ [][(chk.pc # "idle" /\ chk'.pc # "idle") =>
          /\ RuleKeys(rules') = RuleKeys(rules)
          /\ \A i \in 1..Len(rules) :
               rules'[i] # rules[i] =>
                 /\ i = chk.idx /\ chk.pc = "rules"
                 /\ rules'[i] = RuleTrigger(rules[i], now)
          /\ active_alerts' # active_alerts =>
               /\ chk.pc = "rules" /\ rules'[chk.idx] # rules[chk.idx]
               /\ Last(active_alerts').rule_id = rules[chk.idx].rule_id
          /\ \A t \in Threads : call'[t].seen = <<>> \/ call'[t].seen = call[t].seen]_vars
  /\ [][(chk.pc = "rules" /\ chk'.pc = "idle" /\ ~chk'.raised) =>
          /\ cycle.evald = cycle.snap
          /\ \A i, j \in 1..Len(cycle.evald) :
               cycle.evald[i] = cycle.evald[j] => i = j]_vars

\* a cycle has evaluated and triggered a rule and is in its callback while
\* another thread waits to change the rules or to read the history
C19_Witness ==
  /\ chk.pc = "callback"
  /\ Len(cycle.evald) = 1
  /\ rules[1].trigger_count = 1
  /\ \E t \in Callers :
       call[t].pc = "waiting" /\ call[t].op \in {"remove_rule", "get_active_alerts"}

\* C20: no method of the AlertManager blocks for ever: a check_alerts that
\* has taken the lock returns and releases it, whatever the callback does
\* short of not returning, a callback that calls a method of the same
\* manager included, and every thread that waits in a method of the
\* manager gets on.
C20_NoIndefiniteBlock ==
  /\ (chk.pc # "idle") ~> (chk.pc = "idle" /\ alock # "check")
  /\ \A t \in Threads : (call[t].pc = "waiting") ~> (call[t].pc # "waiting")

\* the same for the managers whose callback, if there is one, returns or
\* raises without calling the manager
C20_PlainCallbackReturns ==
  callback \in {"none", "return", "raise"} => C20_NoIndefiniteBlock

\* the thread in check_alerts waits in its callback for the lock it holds
C20_SelfDeadlock ==
  /\ chk.pc = "callback"
  /\ alock = "check"
  /\ call["check"].pc = "waiting"

(***************************************************************************)
(* Locking of the tick buffers (SpecBuf)                                   *)
(***************************************************************************)
\* the buffer the holder of the lock is working on, if the lock is held
LockedBuffer ==
  {Symbols[widx[w] + 1] : w \in {v \in WorkerIds : plock = v /\ widx[v] < Len(Symbols)}}
\* the pushes that have stored their tick and are about to append it
WaitingPush == {g \in Gens : cpc[g] = "push" /\ cl_tick[g].symbol \in SymbolSet}

\* C21: mutual exclusion is per buffer: a push to the buffer of one symbol
\* waits only while an operation on that same buffer holds the lock, never
\* for a snapshot of, or a push to, the buffer of another symbol; a buffer
\* that is being copied is not changed by a push.
C21_PerBufferExclusion ==
  /\ [](\A g \in WaitingPush :
          ~PushGuard => cl_tick[g].symbol \in LockedBuffer)
  /\ [][\A w \in WorkerIds : wpc[w] = "copy" => tick_buffers' = tick_buffers]_vars

\* the part of C21 that is about one buffer: while a worker holds the lock
\* and copies, no buffer changes
C21_SameBufferExcluded ==
  [][\A w \in WorkerIds : wpc[w] = "copy" => tick_buffers' = tick_buffers]_vars

\* a tick of one symbol waits while a worker copies the buffer of the other
C21_WaitsForOtherBuffer ==
  \E g \in WaitingPush :
    /\ LockedBuffer # {}
    /\ cl_tick[g].symbol \notin LockedBuffer

(***************************************************************************)
(* A tick in the store and in its buffer (SpecBuf)                         *)
(***************************************************************************)
\* the persisted ticks of a symbol, in the order of their insertion
StoredOf(sym) == SelectSeq(db_ticks, LAMBDA t : t.symbol = sym)
\* the ticks of a symbol whose callback has stored them and not yet returned
InFlight(sym) == {g \in Gens : cpc[g] = "push" /\ cl_tick[g].symbol = sym}
\* number of insert_tick calls that have raised
FailedInserts == (MaxTicks - ticksLeft) - Len(db_ticks)

\* C22: no tick of a tracked symbol is written in part: the persisted ticks
\* of the symbol are the ticks appended to its buffer, in the same order,
\* followed by the tick of a callback that has not yet returned; the buffer
\* holds the latest of them; a tick whose insert fails reaches neither the
\* store nor a buffer; and this is so whether or not the pipeline has been
\* stopped and whatever the resample workers do.
C22_NoPartialTick ==
  /\ [](\A sym \in SymbolSet :
          /\ Cardinality(InFlight(sym)) <= 1
          /\ Len(StoredOf(sym)) = Len(pushed[sym]) + Cardinality(InFlight(sym))
          /\ pushed[sym] = SubSeq(StoredOf(sym), 1, Len(pushed[sym]))
          /\ \A g \in InFlight(sym) : Last(StoredOf(sym)) = cl_tick[g]
          /\ tick_buffers[sym] = LastN(pushed[sym], BufCap))
  /\ [][(ticksLeft' < ticksLeft /\ db_ticks' = db_ticks) =>
          (tick_buffers' = tick_buffers /\ pushed' = pushed /\ cpc' = cpc)]_vars

\* after a stop and a failed insert, all callbacks have returned and two
\* ticks of a symbol are in the store and in the buffer, while a worker
\* holds the lock
C22_Witness ==
  /\ ~running /\ gen > 0
  /\ FailedInserts > 0
  /\ \A sym \in SymbolSet : InFlight(sym) = {}
  /\ \E sym \in SymbolSet : Len(StoredOf(sym)) = 2 /\ Len(tick_buffers[sym]) = 2
  /\ plock # Free

(***************************************************************************)
(* start and stop in the wrong state (Spec)                                *)
(***************************************************************************)
\* the step leaves the running flag, the clients, the workers and the
\* buffers as they are
PipelineKept ==
  UNCHANGED <<running, gen, tick_buffers, plock, db_ticks, wpc, widx, all_ticks, apc,
              cl_running, cl_ws, cpc, cl_tick, pushed>>

\* C23: start() on a running pipeline creates no second client and no
\* further workers and leaves running true; stop() on a pipeline that is
\* not running leaves the running flag, the client, the workers and the
\* buffers as they are; each of the two logs a warning.
C23_MisuseIsNoOp ==
  /\ [][misuse' # misuse =>
          /\ PipelineKept
          /\ log_warn'
          /\ misuse' = "start_running" => running']_vars
  /\ [](misuse # "none" => log_warn)

\* the half of C23 that is about start()
C23_StartRunningIsNoOp ==
  [][(misuse' # misuse /\ misuse' = "start_running") =>
       (PipelineKept /\ log_warn' /\ running')]_vars

\* stop() was called on a pipeline that was not running and no warning has
\* been logged
C23_StopIdleSilent == misuse = "stop_idle" /\ ~log_warn

(***************************************************************************)
(* Failures inside the periodic workers (SpecWorkers)                      *)
(***************************************************************************)
\* C24: an exception of the resample step, of a storage call or of the
\* analytics inside a cycle of a periodic worker is caught and logged and
\* does not end the worker: a worker leaves its loop only at a test of the
\* running flag that finds it false; after a failure the resample worker is
\* back at the head of its loop and has written nothing, and the alert
\* worker goes on with the next symbol, so that its cycle deals with every
\* symbol.
C24_WorkerSurvivesFailure ==
  /\ [][/\ \A w \in WorkerIds :
             (wpc'[w] = "exited" /\ wpc[w] # "exited") =>
               (~running /\ wpc[w] \in {"loop", "sleep"})
        /\ \A g \in Gens :
             (apc'[g] = "exited" /\ apc[g] # "exited") => (~running /\ apc[g] = "loop")]_vars
  /\ [][wk_log' # wk_log =>
          /\ wk_log' = Append(wk_log, Last(wk_log'))
          /\ db_bars' = db_bars /\ db_ids' = db_ids
          /\ IF Last(wk_log').worker = "alert"
               THEN \E g \in Gens :
                      /\ apc[g] = "check" /\ apc'[g] = "check"
                      /\ a_idx'[g] = a_idx[g] + 1
                      /\ Last(wk_log').step = Symbols[a_idx[g] + 1]
               ELSE \E w \in WorkerIds :
                      /\ w[2] = Last(wk_log').worker
                      /\ wpc[w] = "resample" /\ wpc'[w] = "loop"]_vars
  /\ [][\A g \in Gens :
          (apc[g] = "check" /\ apc'[g] = "loop") =>
            (Len(a_out[g]) = Len(Symbols) /\ a_idx[g] = Len(Symbols))]_vars

\* the pipeline is running, the insert of the resample worker has failed
\* and the worker is in a later cycle, and the alert worker has evaluated
\* the second symbol after the first one failed
C24_Witness ==
  /\ running
  /\ \E k \in 1..Len(wk_log) : wk_log[k].step = "insert_error"
  /\ \E w \in CycleWorkers : wpc[w] \in {"sleep", "lock", "copy", "resample"}
  /\ \E g \in Gens : apc[g] = "check" /\ a_out[g] = <<"error", "ok">>

(***************************************************************************)
(* Malformed events (SpecIngest)                                           *)
(***************************************************************************)
\* an event the handler calls malformed: no JSON, no data field, no symbol,
\* or a price that is missing, no number or not positive
MalformedEvent(m) ==
  \/ m.kind # "trade"
  \/ m.s \in {NoField, ""}
  \/ m.p.k # "num"
  \/ m.p.v <= 0

\* C25: the client calls the tick callback only for an event with a
\* non-empty symbol and a price > 0; a malformed event changes neither the
\* buffers nor the store, and the handler returns with the client as it was,
\* ready for the next event; every tick stored or buffered has a symbol and
\* a positive price.
C25_MalformedDropped ==
  /\ [][cl_seen' # cl_seen =>
          /\ cl_seen' = Append(cl_seen, Last(cl_seen'))
          /\ (cpc' # cpc \/ db_ticks' # db_ticks) =>
               /\ ~MalformedEvent(Last(cl_seen'))
               /\ db_ticks' = Append(db_ticks, Last(db_ticks'))
               /\ Last(db_ticks').symbol = Lower(Last(cl_seen').s)
               /\ Last(db_ticks').price = Last(cl_seen').p.v
          /\ MalformedEvent(Last(cl_seen')) =>
               /\ tick_buffers' = tick_buffers /\ db_ticks' = db_ticks /\ pushed' = pushed
               /\ cpc' = cpc /\ cl_ws' = cl_ws /\ cl_tick' = cl_tick
               /\ cl_running' = cl_running /\ running' = running]_vars
  /\ [](\A i \in 1..Len(db_ticks) : db_ticks[i].symbol # "" /\ db_ticks[i].price > 0)
  /\ [](\A sym \in SymbolSet : \A i \in 1..Len(tick_buffers[sym]) :
          tick_buffers[sym][i].symbol = sym /\ tick_buffers[sym][i].price > 0)

\* a well-formed event that followed a malformed one has been stored and
\* buffered
C25_Witness ==
  /\ Len(cl_seen) = 2
  /\ MalformedEvent(cl_seen[1]) /\ cl_seen[1].kind = "trade" /\ cl_seen[1].p = Num(0)
  /\ ~MalformedEvent(cl_seen[2])
  /\ Len(db_ticks) = 1
  /\ tick_buffers["btcusdt"] = db_ticks

(***************************************************************************)
(* Kalman hedge ratio (SpecKalman)                                         *)
(***************************************************************************)
\* the filter as the description states it, after the observations 2..k of
\* rows: P_pred = P + q, r = y - beta x, S = x^2 P_pred + m,
\* K = P_pred x / S, beta + K r and (1 - K x) P_pred, from initial_beta and
\* P = 1
RECURSIVE KalmanAfter(_, _, _, _, _)
KalmanAfter(rows, initial_beta, q, m, k) ==
  IF k <= 1 THEN [beta |-> initial_beta, P |-> RInt(1)]
  ELSE LET prev == KalmanAfter(rows, initial_beta, q, m, k - 1)
           y == RInt(rows[k][1])
           x == RInt(rows[k][2])
           P_pred == RAdd(prev.P, q)
           r == RSub(y, RMul(prev.beta, x))
           S == RAdd(RMul(RMul(x, x), P_pred), m)
           K == RDiv(RMul(P_pred, x), S)
       IN [beta |-> RAdd(prev.beta, RMul(K, r)),
           P |-> RMul(RSub(RInt(1), RMul(K, x)), P_pred)]

\* the number of index positions at which both series hold a price
AlignedCount(frame) ==
  Cardinality({k \in 1..Len(frame) : frame[k][1] # NaN /\ frame[k][2] # NaN})

\* C26: compute_kalman_hedge_ratio returns one beta per aligned observation,
\* the first one equal to initial_beta; beta[i] for i >= 1 and the
\* covariance follow the stated recursion from P = 1, the spread at i is
\* y_i - beta[i] x_i, and the result is a function of the inputs alone.
C26_KalmanRecursion ==
  /\ (kf.pc = "loop") =>
       /\ kf.P = KalmanAfter(kf.aligned, kf.initial_beta, kf.process_variance,
                             kf.measurement_variance, kf.i).P
       /\ kf.beta = KalmanAfter(kf.aligned, kf.initial_beta, kf.process_variance,
                                kf.measurement_variance, kf.i).beta
  /\ (kf.pc = "done" /\ AlignedCount(kf.frame) >= 2) =>
       LET rows == Aligned(kf.frame) IN
         /\ Len(kf.hedge_ratios) = AlignedCount(kf.frame)
         /\ Len(kf.spreads) = AlignedCount(kf.frame)
         /\ kf.hedge_ratios[1] = kf.initial_beta
         /\ \A k \in 1..Len(rows) :
              /\ kf.hedge_ratios[k] =
                   KalmanAfter(rows, kf.initial_beta, kf.process_variance,
                               kf.measurement_variance, k).beta
              /\ kf.spreads[k] =
                   RSub(RInt(rows[k][1]), RMul(kf.hedge_ratios[k], RInt(rows[k][2])))

\* a result of three betas that differ from one another
C26_Witness ==
  /\ kf.pc = "done"
  /\ Len(kf.hedge_ratios) = 3
  /\ kf.hedge_ratios[2] # kf.hedge_ratios[1]
  /\ kf.hedge_ratios[3] # kf.hedge_ratios[2]
  /\ kf.spreads[3] # RInt(0)

\* the ratios c for which every aligned row of the frame has y = c x, x # 0
ConstantRatios(frame) ==
  {c \in {0 - 4, 0 - 1, 2} :
     \A k \in 1..Len(frame) :
       (frame[k][1] # NaN /\ frame[k][2] # NaN) =>
         (frame[k][2] # 0 /\ frame[k][1] = c * frame[k][2])}

\* C27: when every observation has y = c x with x # 0, each update moves
\* the estimate toward c without passing it: beta - c keeps its sign and
\* does not grow in absolute value, and the covariance P stays positive.
C27_MonotoneTowardRatio ==
  /\ [](kf.pc \in {"loop", "done"} => RLt(RInt(0), kf.P))
  /\ [][(kf.pc = "loop" /\ kf'.pc = "loop" /\ kf'.i = kf.i + 1) =>
          \A c \in ConstantRatios(kf.frame) :
            LET before == RSub(kf.beta, RInt(c))
                after == RSub(kf'.beta, RInt(c))
            IN /\ RLe(RAbs(after), RAbs(before))
               /\ RLt(RInt(0), before) => RLt(RInt(0), after)
               /\ RLt(before, RInt(0)) => RLt(after, RInt(0))
               /\ kf'.betas[kf'.i] = kf'.beta
               /\ RLt(RInt(0), kf'.P)]_vars

\* three observations of ratio 2 and a start above it: the last estimate
\* lies strictly between 2 and the one before
C27_Witness ==
  /\ kf.pc = "done"
  /\ 2 \in ConstantRatios(kf.frame)
  /\ Len(kf.hedge_ratios) = 3
  /\ kf.initial_beta = RInt(3)
  /\ RLt(RInt(2), kf.hedge_ratios[3])
  /\ RLt(kf.hedge_ratios[3], kf.hedge_ratios[2])
  /\ RLt(kf.hedge_ratios[2], kf.hedge_ratios[1])

(***************************************************************************)
(* Rolling z-score (SpecZScore)                                            *)
(***************************************************************************)
\* C28: for a series of at least window observations the rolling z-score is
\* the missing value at every index below window - 1, and from there on it
\* depends on the observations [i - window + 1, i] only: a change at an
\* index outside that range leaves the value at i as it was; for fewer than
\* window observations the result is empty.
C28_WindowOnly ==
  /\ (zs.pc \in {"again", "done"} /\ Len(zs.series) < zs.window) => zs.out = <<>>
  /\ (zs.pc \in {"again", "done"} /\ Len(zs.series) >= zs.window) =>
       /\ Len(zs.out) = Len(zs.series)
       /\ \A i \in 0..(Len(zs.series) - 1) :
            /\ i < zs.window - 1 => zs.out[i + 1] = ZNaN(zs.window)
            /\ i >= zs.window - 1 =>
                 LET win == [k \in 1..zs.window |-> zs.series[i - zs.window + 1 + k]]
                     mean_n == SumSeq(win)
                 IN /\ zs.out[i + 1].n = zs.window * zs.series[i + 1] - mean_n
                    /\ zs.out[i + 1].d = zs.window * SumSeq(SquareSeq(win)) - mean_n * mean_n
  /\ (zs.pc = "done" /\ Len(zs.series) >= zs.window) =>
       \A i \in 0..(Len(zs.series) - 1) :
         (zs.j - 1 < i - zs.window + 1 \/ zs.j - 1 > i) => zs.out_other[i + 1] = zs.out[i + 1]

\* the observation before the last window was changed, the value at the
\* last index is a number and the value at the changed index is another
\* one than before
C28_Witness ==
  /\ zs.pc = "done"
  /\ Len(zs.series) = MaxSeries /\ zs.window = 3
  /\ zs.j = Len(zs.series) - 3
  /\ zs.other # zs.series
  /\ zs.out[Len(zs.series)].d > 0
  /\ zs.out_other[Len(zs.series)] = zs.out[Len(zs.series)]
  /\ zs.out_other[zs.j + 1] # zs.out[zs.j + 1]
  /\ zs.out[2] = ZNaN(3)

(***************************************************************************)
(* Too few observations (SpecFewObs)                                       *)
(***************************************************************************)
\* the number of index positions at which both series hold a value
BothCount(s1, s2) ==
  Cardinality({k \in 1..Len(s1) : k <= Len(s2) /\ s1[k] # NaN /\ s2[k] # NaN})

\* the call has too few observations for its function
InsufficientData ==
  \/ an.fn = "compute_price_stats" /\ Len(an.s1) < 2
  \/ an.fn \in {"compute_zscore", "run"} /\ Len(an.s1) < an.window
  \/ an.fn = "compute_rolling_correlation" /\ BothCount(an.s1, an.s2) < an.window
  \/ an.fn = "compute_adf_test" /\ Len(an.s1) < 10
  \/ /\ an.fn \in {"compute_ols_regression", "compute_robust_regression",
                   "compute_kalman_hedge_ratio"}
     /\ BothCount(an.s1, an.s2) < 2

\* C29: no call raises to its caller, and a call with too few observations
\* (fewer than 2 prices, fewer than window observations, fewer than 10 for
\* the ADF test, fewer than 2 aligned observations, a spread shorter than
\* the window) returns the empty result.
C29_TooFewIsEmpty ==
  (an.pc = "done") => (an.out # "raise" /\ (InsufficientData => an.out = "empty"))

\* the Kalman filter was called on two series of three values that share a
\* single index with a value in both, and returned the empty result
C29_Witness ==
  /\ an.pc = "done" /\ an.fn = "compute_kalman_hedge_ratio"
  /\ Len(an.s1) = 3 /\ Len(an.s2) = 3
  /\ BothCount(an.s1, an.s2) = 1
  /\ an.out = "empty"

(***************************************************************************)
(* Backtest statistics (SpecBacktest)                                      *)
(***************************************************************************)
TradePnls == {bt_result.trades[k].pnl : k \in 1..Len(bt_result.trades)}
TradesWhere(Test(_)) == {k \in 1..Len(bt_result.trades) : Test(bt_result.trades[k].pnl)}
RECURSIVE SumOver(_)
SumOver(ks) ==
  IF ks = {} THEN 0
  ELSE LET k == CHOOSE x \in ks : TRUE IN bt_result.trades[k].pnl + SumOver(ks \ {k})
Wins == TradesWhere(LAMBDA x : x > 0)
Losses == TradesWhere(LAMBDA x : x < 0)
Flats == TradesWhere(LAMBDA x : x = 0)

\* the largest equity among the first k points of the curve
PeakAt(k) ==
  CHOOSE e \in {bt_result.equity_curve[j] : j \in 1..k} :
    \A j \in 1..k : bt_result.equity_curve[j] <= e

\* (running peak - equity) / running peak * 100 at point k of the curve
DrawdownAt(k) ==
  RMul(RDiv(RInt(PeakAt(k) - bt_result.equity_curve[k]), RInt(PeakAt(k))), RInt(100))

\* C30: the statistics of a backtest with trades agree with its trade list
\* and its equity curve: winning and losing trades are the trades with
\* pnl > 0 and pnl < 0 (a trade with pnl = 0 is neither), the win rate is
\* winning / total, total_pnl is the sum of the pnls, the profit factor is
\* gross win / |gross loss| and 0 without a losing trade, and the maximum
\* drawdown is the largest (running peak - equity) / running peak * 100 of
\* the curve, never negative and 0 on a curve that never falls.
C30_StatisticsAgree ==
  (bt_pc = "done" /\ "trades" \in DOMAIN bt_result /\ bt_result.trades # <<>>) =>
    /\ bt_result.total_trades = Len(bt_result.trades)
    /\ bt_result.winning_trades = Cardinality(Wins)
    /\ bt_result.losing_trades = Cardinality(Losses)
    /\ bt_result.winning_trades + bt_result.losing_trades + Cardinality(Flats)
         = bt_result.total_trades
    /\ bt_result.win_rate.n * bt_result.total_trades
         = bt_result.winning_trades * bt_result.win_rate.d
    /\ bt_result.total_pnl = SumOver(Wins \cup Losses \cup Flats)
    /\ IF Losses = {} THEN bt_result.profit_factor = RInt(0)
       ELSE bt_result.profit_factor.n * (0 - SumOver(Losses))
              = SumOver(Wins) * bt_result.profit_factor.d
    /\ RLe(RInt(0), bt_result.max_drawdown)
    /\ \A k \in 1..Len(bt_result.equity_curve) : RLe(DrawdownAt(k), bt_result.max_drawdown)
    /\ \E k \in 1..Len(bt_result.equity_curve) : DrawdownAt(k) = bt_result.max_drawdown
    /\ (\A k \in 2..Len(bt_result.equity_curve) :
          bt_result.equity_curve[k - 1] <= bt_result.equity_curve[k])
         => bt_result.max_drawdown = RInt(0)

\* a backtest with a winning and a losing trade whose equity fell below an
\* earlier peak that lies above the first point of the curve
C30_Witness ==
  /\ bt_pc = "done" /\ "trades" \in DOMAIN bt_result /\ bt_result.trades # <<>>
  /\ Wins # {} /\ Losses # {}
  /\ RLt(RInt(0), bt_result.max_drawdown)
  /\ RLt(RInt(0), bt_result.profit_factor)
  /\ \E k \in 1..Len(bt_result.equity_curve) :
       /\ PeakAt(k) > bt_result.equity_curve[1]
       /\ bt_result.equity_curve[k] < PeakAt(k)

(***************************************************************************)
(* Condition evaluation (SpecSandbox)                                      *)
(***************************************************************************)
\* the rule at position chk.idx was evaluated in this step
Evaluated == chk.pc = "rules" /\ chk'.pc = "rules" /\ chk'.idx = chk.idx + 1
Triggered == rules'[chk.idx].trigger_count = rules[chk.idx].trigger_count + 1

\* C31: evaluating a condition is sandboxed: it leaves the caller's context
\* as it was, it leaves the history as it was apart from the event of its
\* own trigger, and whether the rule triggers is the same in a process
\* whose manager holds another history.
C31_EvaluationSandboxed ==
  [][Evaluated =>
       /\ chk'.ctx = chk.ctx
       /\ active_alerts' = IF Triggered
                             THEN RecordAlert(active_alerts, Last(active_alerts'))
                             ELSE active_alerts
       /\ \A other \in {<<>>, active_alerts} :
            Triggered <=> (Evaluate(rules[chk.idx], chk.ctx, other).value = "true")]_vars

\* the conditions of the earlier specifications are evaluated from the
\* context alone
C31_PlainConditionsPure ==
  [][(Evaluated /\ rules[chk.idx].condition \in Conditions) =>
       /\ chk'.ctx = chk.ctx
       /\ active_alerts' = IF Triggered
                             THEN RecordAlert(active_alerts, Last(active_alerts'))
                             ELSE active_alerts]_vars

(***************************************************************************)
(* Workers across stop and start (SpecRestart)                             *)
(***************************************************************************)
\* a worker that wakes while the running flag is false takes no snapshot
\* and evaluates no alert
C32_WakesStopped ==
  [][~running =>
       /\ \A w \in WorkerIds : wpc[w] = "sleep" => wpc'[w] \in {"sleep", "exited"}
       /\ \A g \in Gens : apc[g] = "sleep" => apc'[g] \in {"sleep", "loop"}]_vars

\* C32: a worker that wakes from its sleep after stop() was called takes no
\* buffer snapshot and evaluates no alert, and a worker that has finished
\* the cycle it was in when stop() was called begins no other one, so that
\* it writes to storage at most once after the stop().
C32_NoCycleAfterStop ==
  [][/\ \A w \in WorkerIds :
          stopSeen[w[1]] =>
            /\ (wpc[w] = "sleep" => wpc'[w] # "lock")
            /\ (wpc[w] = "loop" => wpc'[w] # "sleep")
     /\ \A g \in Gens :
          stopSeen[g] =>
            /\ (apc[g] = "sleep" => apc'[g] # "check")
            /\ (apc[g] = "loop" => apc'[g] # "sleep")]_vars

\* the threads and clients that are active
LiveResample(tf) == {g \in Gens : wpc[<<g, tf>>] \notin {"idle", "exited"}}
LiveAlert == {g \in Gens : apc[g] \notin {"idle", "exited"}}
Connected == {g \in Gens : cl_ws[g] = "open"}

\* C33: at any time at most one resample worker per timeframe, at most one
\* alert worker and at most one connected client are active, for every
\* sequence of start() and stop().
C33_OneWorkerEach ==
  /\ \A tf \in Timeframes : Cardinality(LiveResample(tf)) <= 1
  /\ Cardinality(LiveAlert) <= 1
  /\ Cardinality(Connected) <= 1

\* without a stop() in between there is one of each
C33_OneWhileNotRestarted ==
  gen <= 1 => C33_OneWorkerEach

\* two resample workers of one timeframe hold bars to write
C33_TwoWriters ==
  \E tf \in Timeframes :
    Cardinality({g \in Gens : wpc[<<g, tf>>] = "resample"}) = 2

(***************************************************************************)
(* Bars across resample cycles (SpecRebar)                                 *)
(***************************************************************************)
\* the ticks of a sequence that fall into the interval of a bar
IntervalTicks(ticks, bar, tf) ==
  SelectSeq(ticks, LAMBDA t :
    /\ t.symbol = bar.symbol
    /\ FloorTo(t.timestamp, TIMEFRAMES[tf] * 1000) = bar.timestamp)
\* worker w stores the bars of its snapshot in this step
Writes(w) == wpc[w] = "resample" /\ wpc'[w] = "loop"
SameBar(a, b) == [a EXCEPT !.id = 0] = [b EXCEPT !.id = 0]
\* the snapshot of w holds every tick that was put into the buffer for the
\* interval of the bar
Complete(w, bar) ==
  Len(IntervalTicks(all_ticks[w], bar, w[2]))
    = Len(IntervalTicks(pushed[bar.symbol], bar, w[2]))

\* C34 (as the code has it): when a cycle stores bars from a snapshot that
\* still holds all ticks ingested for the interval of a stored bar, that bar
\* is replaced by one computed from all of them: trade_count and volume do
\* not decrease, and a bar that was computed from all of them is rewritten
\* identically.
C34_CompleteSnapshotKeeps ==
  [][\A w \in WorkerIds :
       Writes(w) =>
         \A k \in 1..Len(db_bars[w[2]]) :
           LET old == db_bars[w[2]][k]
               all == IntervalTicks(pushed[old.symbol], old, w[2])
           IN Complete(w, old) =>
                \E j \in 1..Len(db_bars'[w[2]]) :
                  LET new == db_bars'[w[2]][j]
                  IN /\ new.symbol = old.symbol /\ new.timestamp = old.timestamp
                     /\ new.trade_count = Len(all)
                     /\ new.trade_count >= old.trade_count
                     /\ new.volume >= old.volume
                     /\ (old.trade_count = Len(all) => SameBar(new, old))]_vars

\* a bar of two ticks was stored and stored again from a snapshot that
\* holds both, while nothing has been dropped from the buffer
C34_Witness ==
  /\ Len(pushed[Symbols[1]]) = 2
  /\ \E k \in 1..Len(db_bars["1s"]) :
       /\ db_bars["1s"][k].trade_count = 2
       /\ db_bars["1s"][k].id >= 2

\* C34: the stored bar of an interval never loses information across the
\* resample cycles: its trade_count and volume never decrease.
C34_BarNeverLosesTicks ==
  [][\A tf \in DOMAIN TIMEFRAMES :
       \A k \in 1..Len(db_bars[tf]) :
         \E j \in 1..Len(db_bars'[tf]) :
           /\ db_bars'[tf][j].symbol = db_bars[tf][k].symbol
           /\ db_bars'[tf][j].timestamp = db_bars[tf][k].timestamp
           /\ db_bars'[tf][j].trade_count >= db_bars[tf][k].trade_count
           /\ db_bars'[tf][j].volume >= db_bars[tf][k].volume]_vars

(***************************************************************************)
(* Rule administration (SpecAdmin)                                         *)
(***************************************************************************)
\* C35: after any sequence of add_rule, remove_rule, update_rule and
\* check_alerts every entry of the rule mapping has a key equal to the
\* rule_id of its rule, so that get_rules returns no two rules with the
\* same rule_id and remove_rule(r.rule_id) removes exactly the rule r that
\* get_rules returned.
C35_KeyIsRuleId ==
  /\ [](/\ \A i \in 1..Len(rules) : rules[i].key = rules[i].rule_id
        /\ \A i, j \in 1..Len(GetRules) :
             GetRules[i].rule_id = GetRules[j].rule_id => i = j)
  /\ [][\A i \in 1..Len(GetRules) :
          RemoveRule(GetRules[i].rule_id) =>
            rules' = [k \in 1..(Len(rules) - 1) |->
                        IF k < i THEN rules[k] ELSE rules[k + 1]]]_vars

\* two rules are in the mapping, one has triggered; or one rule was added,
\* has triggered and was then disabled by update_rule
C35_Witness ==
  \/ /\ Len(rules) = 2
     /\ rules[1].trigger_count = 1
  \/ /\ Len(rules) = 1
     /\ adminLeft = 0
     /\ rules[1].trigger_count = 1
     /\ ~rules[1].enabled

HistorySame == active_alerts' = active_alerts /\ all_events' = all_events
\* the positions of the mapping that hold the key id
Keyed(id) == {i \in 1..Len(rules) : rules[i].key = id}
\* rule i differs from what it was at most in attribute field
OnlyAttribute(i, field) ==
  /\ Len(rules') = Len(rules)
  /\ \A j \in 1..Len(rules) : j # i => rules'[j] = rules[j]
  /\ \A f \in DOMAIN rules[i] : f # field => rules'[i][f] = rules[i][f]

C37_AtMostLimit ==
  [][\A limit \in Limits :
       QueryAlerts(limit) =>
         /\ active_alerts' = active_alerts
         /\ Len(q_result'.rows) <= limit
         /\ Len(q_result'.rows) = (IF limit < Len(active_alerts) THEN limit
                                   ELSE Len(active_alerts))
         /\ q_result'.rows = SubSeq(active_alerts,
                                    Len(active_alerts) - Len(q_result'.rows) + 1,
                                    Len(active_alerts))]_vars

\* for limit >= 1 the call returns the most recent min(limit, length)
\* events, and no call changes the history
C37_RecentForPositiveLimit ==
  [][\A limit \in Limits :
       QueryAlerts(limit) =>
         /\ active_alerts' = active_alerts
         /\ limit >= 1 =>
              /\ Len(q_result'.rows) = (IF limit < Len(active_alerts) THEN limit
                                        ELSE Len(active_alerts))
              /\ q_result'.rows = SubSeq(active_alerts,
                                         Len(active_alerts) - Len(q_result'.rows) + 1,
                                         Len(active_alerts))]_vars

(***************************************************************************)
(* A callback that raises (SpecEngine)                                     *)
(***************************************************************************)
\* C38: an exception raised by the trigger callback is caught inside
\* check_alerts: the trigger recorded for the rule (count incremented, event
\* in the history) is kept, the loop goes on with the next rule, so that
\* every rule of the cycle is evaluated, the lock is released at the end
\* and check_alerts raises nothing.
C38_CallbackErrorCaught ==
  /\ [][(callback = "raise" /\ chk.pc = "callback" /\ chk'.pc # "callback") =>
          /\ chk'.pc = "rules" /\ chk'.idx = chk.idx + 1 /\ ~chk'.raised
          /\ rules' = rules
          /\ rules[chk.idx].trigger_count >= 1
          /\ active_alerts' = active_alerts
          /\ Last(active_alerts).rule_id = rules[chk.idx].rule_id
          /\ alock' = "check"]_vars
  /\ [][(callback = "raise" /\ chk.pc # "idle" /\ chk'.pc = "idle") =>
          /\ alock' = "free"
          /\ ~chk'.raised
          /\ cycle.evald = cycle.snap]_vars

\* a cycle over two rules with a raising callback is over: both rules have
\* triggered, both events are in the history, the lock is free
C38_Witness ==
  /\ callback = "raise"
  /\ chk.pc = "idle" /\ ~chk.raised
  /\ alock = "free"
  /\ Len(rules) = 2
  /\ rules[1].trigger_count = 1 /\ rules[2].trigger_count = 1
  /\ Len(cb_calls) = 2
  /\ Len(active_alerts) = 2

(***************************************************************************)
(* Timeframe names (SpecTimeframe)                                         *)
(***************************************************************************)
Unconfigured == StoreTimeframes \ DOMAIN TIMEFRAMES

\* C39: resample_ticks, insert_bars and get_bars reject a timeframe name
\* that is not configured with a ValueError before they read or write any
\* data: resample_ticks also for an empty tick set, and insert_bars leaves
\* every bar table as it is.
C39_UnknownTimeframeRejected ==
  [][\A tf \in Unconfigured :
       /\ \A ticks \in CallFrames :
            ResampleTicksCall(ticks, tf) => q_result'.kind = "ValueError"
       /\ \A bars \in StoreFrames :
            InsertBarsCall(tf, bars) =>
              /\ q_result'.kind = "ValueError"
              /\ db_bars' = db_bars /\ db_ids' = db_ids
       /\ \A sy \in SymbolSet, lim \in QueryLimits :
            GetBarsCall(sy, tf, None, None, lim) =>
              /\ q_result'.kind = "ValueError"
              /\ db_bars' = db_bars]_vars

\* a call was rejected while a bar table holds rows
C39_Witness ==
  /\ q_result.kind = "ValueError"
  /\ \E tf \in DOMAIN TIMEFRAMES : db_bars[tf] # <<>>

=============================================================================
